---- MODULE Spec2Model ----
(***************************************************************************)
(* A model of the wxauto lite bot's message-handling pipeline:             *)
(*   rate_limit.py  DedupeCache, CooldownManager, FailureTracker           *)
(*   storage.py     SessionIndex, SessionStore                             *)
(*   token_utils.py estimate_tokens, truncate_text_to_tokens               *)
(*   bot.py         WxAutoBot                                              *)
(* Each class is modelled by operators over the values of its fields, one  *)
(* operator per method, returning the fields after the call and the        *)
(* method's result.  The specifications drive these operators with calls   *)
(* drawn from small sets while a clock (time.time()) advances.             *)
(***************************************************************************)
EXTENDS Integers, Sequences, FiniteSets, TLC

(***************************************************************************)
(* Bounds of the model.                                                    *)
(***************************************************************************)
\* the clock makes at most MaxTicks steps of one second
MaxTicks == 6
\* windows, cooldowns and thresholds are drawn from 1..MaxWindow
MaxWindow == 2
\* max_consecutive_failures is drawn from 1..MaxThreshold
MaxThreshold == 2

\* a key's failure counter is driven up to MaxFailures
MaxFailures == MaxThreshold + 2

\* time.time() is epoch seconds: the clock starts far above every window
Epoch == 10 * (MaxWindow + 1)

\* at most MaxSaves save_image calls are made
MaxSaves == 3

\* token budgets are drawn from 1..MaxBudget
MaxBudget == 4

\* a session's history holds at most MaxHistory messages
MaxHistory == 3

\* at most MaxEvents inbound events are handled
MaxEvents == 2

\* while events are handled the clock makes at most MaxEventTicks steps
MaxEventTicks == 2

\* keys handed to the rate-limit classes (message ids, session ids, senders)
Keys == {"k1", "k2"}

(***************************************************************************)
(* Python dict: a function whose domain is the set of keys present.        *)
(***************************************************************************)
EmptyDict == << >>

Put(d, k, v) == [x \in (DOMAIN d) \cup {k} |-> IF x = k THEN v ELSE d[x]]

Pop(d, k) == [x \in (DOMAIN d) \ {k} |-> d[x]]

Get(d, k, default) == IF k \in DOMAIN d THEN d[k] ELSE default

(***************************************************************************)
(* State.                                                                  *)
(***************************************************************************)
VARIABLES
    now,              \* time.time()
    config,           \* BotConfig: the fields the modelled code reads
    dedupe,           \* WxAutoBot.dedupe: DedupeCache.cache
    session_cooldown, \* WxAutoBot.session_cooldown: CooldownManager.last_hit
    user_cooldown,    \* WxAutoBot.user_cooldown: CooldownManager.last_hit
    failure_tracker,  \* WxAutoBot.failure_tracker: [failures, cooldowns]
    vision_cache,     \* WxAutoBot.vision_cache: image sha256 -> reply
    sessions,         \* SessionIndex.data["sessions"]
    index_file,       \* session_index.json: [exists, sessions]
    history_files,    \* <scope>/<session_id>/history.jsonl: path -> lines
    image_files,      \* <scope>/<session_id>/images/<name>: path -> bytes
    call,             \* the last call made: its arguments, time and result
    prev,             \* the call made before the last one
    ncalls,           \* the number of calls made so far
    accepted,         \* per key, the time of the last call that returned false
    streak            \* per key, register_failure calls since the last success

memVars == <<dedupe, session_cooldown, user_cooldown, failure_tracker,
             vision_cache>>

storeVars == <<sessions, index_file, history_files, image_files>>

ghostVars == <<prev, ncalls, accepted, streak>>

vars == <<now, config, memVars, storeVars, call, ghostVars>>

\* config.py:10-102, BotConfig with its defaults; the numbers are scaled
\* down (seconds and tokens) and redrawn by each specification.  The empty
\* string is a missing (None) text, None a missing regex.
DefaultConfig ==
    [ self_user_id              |-> "",
      global_prompt             |-> "be kind",
      private_prompt            |-> "",
      group_prompt              |-> "",
      private_mode              |-> "always",
      private_keywords          |-> << >>,
      private_regex             |-> << >>,
      group_mode                |-> "mention",
      group_keywords            |-> << >>,
      api_max_output_tokens     |-> 3,
      token_budget              |-> 12,
      max_group_output_tokens   |-> 2,
      max_private_output_tokens |-> 3,
      max_single_message_tokens |-> 4,
      dedupe_window             |-> 2,
      session_cooldown_seconds  |-> 2,
      user_cooldown_seconds     |-> 1,
      max_failures              |-> 2,
      failure_cooldown          |-> 2,
      fallback_reply            |-> "sorry, try again later",
      vision_enable_private     |-> TRUE,
      vision_enable_group       |-> TRUE,
      private_fixed_reply       |-> "",
      group_fixed_reply         |-> "" ]

NoCall == [op |-> "none"]

\* WxAutoBot.__init__: every in-memory structure starts empty
InitMemory ==
    /\ now = Epoch
    /\ dedupe = EmptyDict
    /\ session_cooldown = EmptyDict
    /\ user_cooldown = EmptyDict
    /\ failure_tracker = [failures |-> EmptyDict, cooldowns |-> EmptyDict]
    /\ vision_cache = EmptyDict

\* no call made yet
InitObserved ==
    /\ prev = NoCall
    /\ ncalls = 0
    /\ accepted = EmptyDict
    /\ streak = EmptyDict

\* a storage directory that does not exist yet
InitDisk ==
    /\ sessions = EmptyDict
    /\ index_file = [exists |-> FALSE, sessions |-> EmptyDict]
    /\ history_files = EmptyDict
    /\ image_files = EmptyDict

\* the clock advances between calls
Tick ==
    /\ now < Epoch + MaxTicks
    /\ now' = now + 1
    /\ call' = [op |-> "tick"]
    /\ UNCHANGED <<config, memVars, storeVars, ghostVars>>

(***************************************************************************)
(* rate_limit.py: DedupeCache                                              *)
(***************************************************************************)
\* the mutant prunes an entry already when its age equals the window
seen_recently_prune_at_window(cache, window, key, t) ==
    LET kept == {k \in DOMAIN cache : ~(t - cache[k] >= window)}
        pruned == [k \in kept |-> cache[k]]
    IN  IF key \in DOMAIN pruned
        THEN [cache |-> pruned, ret |-> TRUE]
        ELSE [cache |-> Put(pruned, key, t), ret |-> FALSE]

\* the mutant refreshes the timestamp of a key it finds
seen_recently_refreshing(cache, window, key, t) ==
    LET kept == {k \in DOMAIN cache : ~(t - cache[k] > window)}
        pruned == [k \in kept |-> cache[k]]
    IN  IF key \in DOMAIN pruned
        THEN [cache |-> Put(pruned, key, t), ret |-> TRUE]
        ELSE [cache |-> Put(pruned, key, t), ret |-> FALSE]

seen_recently(cache, window, key, t) ==
    LET kept == {k \in DOMAIN cache : ~(t - cache[k] > window)}
        pruned == [k \in kept |-> cache[k]]
    IN  IF key \in DOMAIN pruned
        THEN [cache |-> pruned, ret |-> TRUE]
        ELSE [cache |-> Put(pruned, key, t), ret |-> FALSE]

\* a call dedupe.seen_recently(key) at the current time
SeenRecently(key) ==
    LET r == seen_recently(dedupe, config.dedupe_window, key, now)
    IN  /\ dedupe' = r.cache
        /\ call' = [op |-> "seen_recently", key |-> key, at |-> now,
                    ret |-> r.ret,
                    dropped |-> DOMAIN dedupe \ DOMAIN r.cache,
                    hadAccept |-> key \in DOMAIN accepted,
                    prevAccept |-> Get(accepted, key, 0)]
        /\ accepted' = IF r.ret THEN accepted ELSE Put(accepted, key, now)
        /\ UNCHANGED <<now, config, session_cooldown, user_cooldown,
                       failure_tracker, vision_cache, storeVars, prev, ncalls, streak>>

InitDedupe ==
    /\ InitMemory
    /\ InitDisk
    /\ InitObserved
    /\ call = NoCall
    /\ \E w \in 1..MaxWindow : config = [DefaultConfig EXCEPT !.dedupe_window = w]

NextDedupe ==
    \/ Tick
    \/ \E key \in Keys : SeenRecently(key)

SpecDedupe == InitDedupe /\ [][NextDedupe]_vars

\* C1: seen_recently(key) returns false exactly when the key was never
\* accepted before or its last accepting (false-returning) call lies more
\* than the window back: the first call returns false, every call no more
\* than W after the accepting call returns true, the first call more than W
\* after it returns false, so two false returns are more than W apart.
C1_DedupeWindow ==
    call.op = "seen_recently" =>
        /\ (~call.hadAccept => call.ret = FALSE)
        /\ (call.hadAccept /\ call.at - call.prevAccept <= config.dedupe_window
                => call.ret = TRUE)
        /\ (call.hadAccept /\ call.at - call.prevAccept > config.dedupe_window
                => call.ret = FALSE)
        /\ (call.hadAccept /\ call.ret = FALSE
                => call.at - call.prevAccept > config.dedupe_window)

\* a key is accepted a second time, after its window has passed
C1_Witness ==
    /\ call.op = "seen_recently"
    /\ call.hadAccept
    /\ call.ret = FALSE
    /\ call.at - call.prevAccept = config.dedupe_window + 1

\* the entries of the cache that are older than the window at time t
Expired(cache, window, t) == {k \in DOMAIN cache : t - cache[k] > window}

\* C21 as stated: a seen_recently(key) call that returns true leaves the
\* cache as it was, the set of keys and every timestamp.
C21_TruePathLeavesCache ==
    [][call'.op = "seen_recently" /\ call'.ret => dedupe' = dedupe]_vars

\* C21, amended: a seen_recently(key) call that returns true adds no key and
\* changes no timestamp (the one of the looked-up key included, which stays
\* cached); what it removes is exactly the entries older than the window.
C21_TruePathOnlyExpires ==
    [][call'.op = "seen_recently" /\ call'.ret =>
          /\ DOMAIN dedupe' =
                DOMAIN dedupe \ Expired(dedupe, config.dedupe_window, now)
          /\ \A k \in DOMAIN dedupe' : dedupe'[k] = dedupe[k]
          /\ call'.key \in DOMAIN dedupe'
      ]_vars

\* a call that returns true has dropped the expired entry of another key
C21_Witness ==
    /\ call.op = "seen_recently"
    /\ call.ret
    /\ call.dropped # {}
    /\ call.key \in DOMAIN dedupe
    /\ dedupe[call.key] < call.at

(***************************************************************************)
(* rate_limit.py: CooldownManager                                          *)
(***************************************************************************)
\* the mutant compares with <= : a call exactly one window later still hits
in_cooldown_inclusive(last_hit, cooldown_seconds, key, t) ==
    IF t - Get(last_hit, key, 0) <= cooldown_seconds
    THEN [last_hit |-> last_hit, ret |-> TRUE]
    ELSE [last_hit |-> Put(last_hit, key, t), ret |-> FALSE]

\* the mutant refreshes the timestamp on a hit as well
in_cooldown_refreshing(last_hit, cooldown_seconds, key, t) ==
    IF t - Get(last_hit, key, 0) < cooldown_seconds
    THEN [last_hit |-> Put(last_hit, key, t), ret |-> TRUE]
    ELSE [last_hit |-> Put(last_hit, key, t), ret |-> FALSE]

in_cooldown(last_hit, cooldown_seconds, key, t) ==
    IF t - Get(last_hit, key, 0) < cooldown_seconds
    THEN [last_hit |-> last_hit, ret |-> TRUE]
    ELSE [last_hit |-> Put(last_hit, key, t), ret |-> FALSE]

\* a call session_cooldown.in_cooldown(key) at the current time
InCooldown(key) ==
    LET r == in_cooldown(session_cooldown, config.session_cooldown_seconds,
                         key, now)
    IN  /\ session_cooldown' = r.last_hit
        /\ call' = [op |-> "in_cooldown", key |-> key, at |-> now,
                    ret |-> r.ret,
                    hadAccept |-> key \in DOMAIN accepted,
                    prevAccept |-> Get(accepted, key, 0)]
        /\ accepted' = IF r.ret THEN accepted ELSE Put(accepted, key, now)
        /\ UNCHANGED <<now, config, dedupe, user_cooldown, failure_tracker,
                       vision_cache, storeVars, prev, ncalls, streak>>

InitCooldown ==
    /\ InitMemory
    /\ InitDisk
    /\ InitObserved
    /\ call = NoCall
    /\ \E w \in 1..MaxWindow :
          config = [DefaultConfig EXCEPT !.session_cooldown_seconds = w]

NextCooldown ==
    \/ Tick
    \/ \E key \in Keys : InCooldown(key)

SpecCooldown == InitCooldown /\ [][NextCooldown]_vars

\* C2: with an epoch clock, the first in_cooldown(k) of a key returns false,
\* a call less than the window after the last false-returning call (an
\* immediate repeat in particular) returns true, and a call at least the
\* window after the last false-returning call returns false again.
C2_CooldownWindow ==
    call.op = "in_cooldown" =>
        /\ (~call.hadAccept => call.ret = FALSE)
        /\ (call.hadAccept /\ call.at = call.prevAccept => call.ret = TRUE)
        /\ (call.hadAccept
              /\ call.at - call.prevAccept < config.session_cooldown_seconds
                => call.ret = TRUE)
        /\ (call.hadAccept
              /\ call.at - call.prevAccept >= config.session_cooldown_seconds
                => call.ret = FALSE)

\* a call exactly one window after the last false-returning call is let through
C2_Witness ==
    /\ call.op = "in_cooldown"
    /\ call.hadAccept
    /\ call.ret = FALSE
    /\ call.at - call.prevAccept = config.session_cooldown_seconds

\* C3: an in_cooldown call that returns true changes no key's timestamp, and
\* a timestamp changes only in a call for that key that returns false, which
\* sets it to the current time; hits never postpone the end of the cooldown.
C3_HitLeavesTimestamp ==
    [][ /\ (call'.op = "in_cooldown" /\ call'.ret = TRUE
              => session_cooldown' = session_cooldown)
        /\ \A k \in DOMAIN session_cooldown' :
              (k \notin DOMAIN session_cooldown
                 \/ session_cooldown'[k] # session_cooldown[k])
              => /\ call'.op = "in_cooldown"
                 /\ call'.key = k
                 /\ call'.ret = FALSE
                 /\ session_cooldown'[k] = now
        /\ DOMAIN session_cooldown \subseteq DOMAIN session_cooldown'
      ]_vars

\* a hit made later than the timestamp it was judged against, which it left
C3_Witness ==
    /\ call.op = "in_cooldown"
    /\ call.ret = TRUE
    /\ call.key \in DOMAIN session_cooldown
    /\ call.at > session_cooldown[call.key]

(***************************************************************************)
(* rate_limit.py: FailureTracker                                           *)
(* failures and cooldowns are defaultdicts: a read of a missing key by     *)
(* indexing inserts the default, a read by .get does not.                  *)
(***************************************************************************)
\* the mutant opens the breaker one failure late
register_failure_late(tracker, max_failures, cooldown_seconds, key, t) ==
    LET n == Get(tracker.failures, key, 0) + 1
    IN  [failures  |-> Put(tracker.failures, key, n),
         cooldowns |-> IF n > max_failures
                       THEN Put(tracker.cooldowns, key, t + cooldown_seconds)
                       ELSE tracker.cooldowns]

register_failure(tracker, max_failures, cooldown_seconds, key, t) ==
    LET n == Get(tracker.failures, key, 0) + 1
    IN  [failures  |-> Put(tracker.failures, key, n),
         cooldowns |-> IF n >= max_failures
                       THEN Put(tracker.cooldowns, key, t + cooldown_seconds)
                       ELSE tracker.cooldowns]

\* the mutant resets the counter and leaves the block standing
register_success_keeping_block(tracker, key) ==
    [failures  |-> Put(tracker.failures, key, 0),
     cooldowns |-> tracker.cooldowns]

register_success(tracker, key) ==
    [failures  |-> Put(tracker.failures, key, 0),
     cooldowns |-> Pop(tracker.cooldowns, key)]

\* the mutant never looks at the clock: a block once set holds
is_blocked_latched(tracker, key, t) ==
    LET until == Get(tracker.cooldowns, key, 0)
    IN  IF until # 0
        THEN [tracker |-> tracker, ret |-> TRUE]
        ELSE [tracker |-> tracker, ret |-> FALSE]

\* the mutant is a half-open breaker: an expired block clears the entry
is_blocked_clearing(tracker, key, t) ==
    LET until == Get(tracker.cooldowns, key, 0)
    IN  IF until # 0 /\ t < until
        THEN [tracker |-> tracker, ret |-> TRUE]
        ELSE [tracker |-> register_success(tracker, key), ret |-> FALSE]

is_blocked(tracker, key, t) ==
    LET until == Get(tracker.cooldowns, key, 0)
    IN  IF until # 0 /\ t < until
        THEN [tracker |-> tracker, ret |-> TRUE]
        ELSE [tracker |-> tracker, ret |-> FALSE]

\* what the ghost streak holds for a key never failed
NoStreak == [n |-> 0, at |-> 0]

RegisterFailure(key) ==
    /\ Get(failure_tracker.failures, key, 0) < MaxFailures
    /\ failure_tracker' = register_failure(failure_tracker, config.max_failures,
                                           config.failure_cooldown, key, now)
    /\ call' = [op |-> "register_failure", key |-> key, at |-> now,
                expired |-> /\ key \in DOMAIN failure_tracker.cooldowns
                            /\ now >= failure_tracker.cooldowns[key]]
    /\ streak' = Put(streak, key, [n  |-> Get(streak, key, NoStreak).n + 1,
                                   at |-> now])
    /\ UNCHANGED <<now, config, dedupe, session_cooldown, user_cooldown,
                   vision_cache, storeVars, prev, ncalls, accepted>>

RegisterSuccess(key) ==
    /\ failure_tracker' = register_success(failure_tracker, key)
    /\ call' = [op |-> "register_success", key |-> key, at |-> now,
                wasBlocked |-> is_blocked(failure_tracker, key, now).ret]
    /\ streak' = Put(streak, key, NoStreak)
    /\ UNCHANGED <<now, config, dedupe, session_cooldown, user_cooldown,
                   vision_cache, storeVars, prev, ncalls, accepted>>

IsBlocked(key) ==
    LET r == is_blocked(failure_tracker, key, now)
    IN  /\ failure_tracker' = r.tracker
        /\ call' = [op |-> "is_blocked", key |-> key, at |-> now,
                    ret |-> r.ret, before |-> failure_tracker]
        /\ UNCHANGED <<now, config, dedupe, session_cooldown, user_cooldown,
                       vision_cache, storeVars, ghostVars>>

InitFailure ==
    /\ InitMemory
    /\ InitDisk
    /\ InitObserved
    /\ call = NoCall
    /\ \E m \in 1..MaxThreshold, c \in 1..MaxWindow :
          config = [DefaultConfig EXCEPT !.max_failures = m,
                                         !.failure_cooldown = c]

NextFailure ==
    \/ Tick
    \/ \E key \in Keys : RegisterFailure(key)
    \/ \E key \in Keys : RegisterSuccess(key)
    \/ \E key \in Keys : IsBlocked(key)

SpecFailure == InitFailure /\ [][NextFailure]_vars

\* is_blocked(key) as a caller would observe it now
Blocked(key) == is_blocked(failure_tracker, key, now).ret

\* C4: once a key has max_failures or more register_failure calls in a row
\* with no register_success in between, is_blocked is true until the
\* cooldown has elapsed since the last of them; right after a
\* register_success the key is not blocked, its counter is zero and its
\* blocked_until entry is gone.
C4_BreakerOpensAndCloses ==
    /\ \A k \in DOMAIN streak :
          streak[k].n >= config.max_failures =>
             (Blocked(k) <=> now < streak[k].at + config.failure_cooldown)
    /\ call.op = "register_success" =>
          /\ ~Blocked(call.key)
          /\ failure_tracker.failures[call.key] = 0
          /\ call.key \notin DOMAIN failure_tracker.cooldowns

\* a blocked key is closed by one register_success while its block still runs
C4_Witness ==
    /\ call.op = "register_success"
    /\ call.wasBlocked
    /\ config.max_failures > 1

\* C5: when blocked_until has passed without a success the key is not
\* blocked although its counter is still at or above the threshold, and one
\* more register_failure blocks it again; is_blocked is true exactly when
\* blocked_until is set and lies in the future, and a call of it leaves the
\* tracker as it was.
C5_ExpiryKeepsCounter ==
    /\ \A k \in DOMAIN failure_tracker.cooldowns :
          now >= failure_tracker.cooldowns[k] =>
             /\ ~Blocked(k)
             /\ failure_tracker.failures[k] >= config.max_failures
    /\ (call.op = "register_failure" /\ call.expired) => Blocked(call.key)
    /\ \A k \in Keys :
          Blocked(k) <=> /\ k \in DOMAIN failure_tracker.cooldowns
                         /\ now < failure_tracker.cooldowns[k]
    /\ call.op = "is_blocked" => failure_tracker = call.before

\* one failure after an expired block blocks the key again, at a threshold
\* above one
C5_Witness ==
    /\ call.op = "register_failure"
    /\ call.expired
    /\ config.max_failures > 1
    /\ failure_tracker.failures[call.key] = config.max_failures + 1
    /\ Blocked(call.key)

(***************************************************************************)
(* storage.py: SessionIndex and SessionStore.resolve_session               *)
(* Digests are symbolic: hashlib's digest of a text is a term over that    *)
(* text, so equal inputs give equal digests and, as for a collision-free   *)
(* hash, distinct inputs give distinct ones.                               *)
(***************************************************************************)
Scopes == {"private", "group"}

\* raw session keys: a sender id, a group id, a conversation id
SessionKeys == {"u1", "g1", "c:1"}

DisplayNames == {"Alice", "Team"}

\* hashlib.sha1(text.encode("utf-8")).hexdigest()[:16]
sha1_hex16(text) == "sha1_16(" \o text \o ")"

\* f"{scope}:{key}"
SessionKey(scope, key) == scope \o ":" \o key

\* SessionIndex.save: the whole of data is written to session_index.json
save(data) == [exists |-> TRUE, sessions |-> data]

\* the mutant derives the id from the raw key alone
get_or_create_unscoped(data, file, scope, key, display_name) ==
    LET session_key == SessionKey(scope, key)
    IN  IF session_key \in DOMAIN data
        THEN [sessions |-> data, file |-> file, ret |-> data[session_key].id]
        ELSE LET session_id == sha1_hex16(key)
                 created == Put(data, session_key,
                                [id |-> session_id,
                                 display_name |-> display_name,
                                 scope |-> scope, key |-> key])
             IN  [sessions |-> created, file |-> save(created),
                  ret |-> session_id]

\* the mutant refreshes the stored display name on every lookup
get_or_create_refreshing(data, file, scope, key, display_name) ==
    LET session_key == SessionKey(scope, key)
        session_id == sha1_hex16(session_key)
        created == Put(data, session_key,
                       [id |-> session_id, display_name |-> display_name,
                        scope |-> scope, key |-> key])
    IN  [sessions |-> created, file |-> save(created), ret |-> session_id]

\* SessionIndex.get_or_create on the index data and the index file
get_or_create(data, file, scope, key, display_name) ==
    LET session_key == SessionKey(scope, key)
    IN  IF session_key \in DOMAIN data
        THEN [sessions |-> data, file |-> file, ret |-> data[session_key].id]
        ELSE LET session_id == sha1_hex16(session_key)
                 created == Put(data, session_key,
                                [id |-> session_id,
                                 display_name |-> display_name,
                                 scope |-> scope, key |-> key])
             IN  [sessions |-> created, file |-> save(created),
                  ret |-> session_id]

\* SessionStore.resolve_session
resolve_session(data, file, scope, key, display_name) ==
    get_or_create(data, file, scope, key, display_name)

\* a call store.resolve_session(scope, key, display_name); accepted records,
\* per (scope, key), the id the first call returned
ResolveSession(scope, key, display_name) ==
    LET r == resolve_session(sessions, index_file, scope, key, display_name)
    IN  /\ sessions' = r.sessions
        /\ index_file' = r.file
        /\ call' = [op |-> "resolve_session", scope |-> scope, key |-> key,
                    display_name |-> display_name, ret |-> r.ret,
                    seen |-> <<scope, key>> \in DOMAIN accepted,
                    before |-> sessions]
        /\ accepted' = IF <<scope, key>> \in DOMAIN accepted
                       THEN accepted
                       ELSE Put(accepted, <<scope, key>>, r.ret)
        /\ UNCHANGED <<now, config, memVars, history_files, image_files,
                       prev, ncalls, streak>>

InitIndex ==
    /\ InitMemory
    /\ InitDisk
    /\ InitObserved
    /\ call = NoCall
    /\ config = DefaultConfig

NextIndex ==
    \E scope \in Scopes, key \in SessionKeys, display_name \in DisplayNames :
        ResolveSession(scope, key, display_name)

SpecIndex == InitIndex /\ [][NextIndex]_vars

\* C6: every resolve_session call for a (scope, key) returns the id its
\* first call returned, a call after the first adds no index entry, and the
\* private and the group session of one raw key have different ids and two
\* distinct index entries.
C6_ResolveIdempotent ==
    /\ call.op = "resolve_session" =>
          /\ call.ret = accepted[<<call.scope, call.key>>]
          /\ call.seen => DOMAIN sessions = DOMAIN call.before
    /\ \A key \in SessionKeys :
          (<<"private", key>> \in DOMAIN accepted
             /\ <<"group", key>> \in DOMAIN accepted)
          => /\ accepted[<<"private", key>>] # accepted[<<"group", key>>]
             /\ SessionKey("private", key) \in DOMAIN sessions
             /\ SessionKey("group", key) \in DOMAIN sessions
             /\ SessionKey("private", key) # SessionKey("group", key)
             /\ sessions[SessionKey("private", key)].id
                   = accepted[<<"private", key>>]
             /\ sessions[SessionKey("group", key)].id
                   = accepted[<<"group", key>>]

\* a key resolved in both scopes, the last call being a repeat
C6_Witness ==
    /\ call.op = "resolve_session"
    /\ call.seen
    /\ <<"private", call.key>> \in DOMAIN accepted
    /\ <<"group", call.key>> \in DOMAIN accepted

\* C7: an index entry, once it exists, keeps its id, display_name, scope and
\* key and is never removed, in memory and in the index file, whatever
\* display_name later calls pass.
C7_IndexStable ==
    [][ /\ \A sk \in DOMAIN sessions :
              sk \in DOMAIN sessions' /\ sessions'[sk] = sessions[sk]
        /\ \A sk \in DOMAIN index_file.sessions :
              /\ sk \in DOMAIN index_file'.sessions
              /\ index_file'.sessions[sk] = index_file.sessions[sk]
      ]_vars

\* a session is resolved again under another display name than the stored one
C7_Witness ==
    /\ call.op = "resolve_session"
    /\ call.seen
    /\ sessions[SessionKey(call.scope, call.key)].display_name
          # call.display_name

(***************************************************************************)
(* storage.py: SessionStore.save_image                                     *)
(* Image bytes are byte strings; a mime type is the list of its parts      *)
(* between slashes, <<"image", "png">> for "image/png".                    *)
(***************************************************************************)
ImageBytes == {"AB", "XYZ"}

MimeTypes == {<<"image", "png">>, <<"png">>}

\* message ids; the empty string is the missing id
MessageIds == {"", "m1"}

SessionIds == {"s1"}

\* hashlib.sha256(image_bytes).hexdigest()
sha256_hex(bytes) == "sha256(" \o bytes \o ")"

\* sha256[:16]
hex16(digest) == "16:" \o digest

\* mime_type.split("/")[-1] if "/" in mime_type else "bin"
Extension(mime_type) ==
    IF Len(mime_type) > 1 THEN mime_type[Len(mime_type)] ELSE "bin"

\* base_dir / scope / session_id, relative to base_dir
session_dir(scope, session_id) == scope \o "/" \o session_id

\* the mutant writes the file whether or not it exists
save_image_overwriting(files, scope, session_id, image_bytes, mime_type, message_id) ==
    LET sha256 == sha256_hex(image_bytes)
        stable_name == IF message_id # "" THEN message_id ELSE hex16(sha256)
        filename == stable_name \o "." \o Extension(mime_type)
        target_path == session_dir(scope, session_id) \o "/images/" \o filename
    IN  [files |-> Put(files, target_path, image_bytes),
         wrote |-> TRUE,
         ret   |-> [relative_path |-> target_path, sha256 |-> sha256,
                    size |-> Len(image_bytes), mime_type |-> mime_type]]

save_image(files, scope, session_id, image_bytes, mime_type, message_id) ==
    LET sha256 == sha256_hex(image_bytes)
        stable_name == IF message_id # "" THEN message_id ELSE hex16(sha256)
        filename == stable_name \o "." \o Extension(mime_type)
        target_path == session_dir(scope, session_id) \o "/images/" \o filename
        absent == target_path \notin DOMAIN files
    IN  [files |-> IF absent THEN Put(files, target_path, image_bytes)
                   ELSE files,
         wrote |-> absent,
         ret   |-> [relative_path |-> target_path, sha256 |-> sha256,
                    size |-> Len(image_bytes), mime_type |-> mime_type]]

\* a call store.save_image(scope, session_id, bytes, mime, message_id)
SaveImage(scope, session_id, image_bytes, mime_type, message_id) ==
    LET r == save_image(image_files, scope, session_id, image_bytes,
                        mime_type, message_id)
    IN  /\ ncalls < MaxSaves
        /\ ncalls' = ncalls + 1
        /\ image_files' = r.files
        /\ prev' = call
        /\ call' = [op |-> "save_image",
                    args |-> <<scope, session_id, image_bytes, mime_type,
                               message_id>>,
                    ret |-> r.ret, wrote |-> r.wrote, before |-> image_files]
        /\ UNCHANGED <<now, config, memVars, sessions, index_file,
                       history_files, accepted, streak>>

InitImages ==
    /\ InitMemory
    /\ InitDisk
    /\ InitObserved
    /\ call = NoCall
    /\ config = DefaultConfig

NextImages ==
    \E scope \in Scopes, session_id \in SessionIds, image_bytes \in ImageBytes,
       mime_type \in MimeTypes, message_id \in MessageIds :
        SaveImage(scope, session_id, image_bytes, mime_type, message_id)

SpecImages == InitImages /\ [][NextImages]_vars

\* C9: of two save_image calls in a row with the same scope, session, bytes,
\* mime type and message id, the second writes nothing and leaves every
\* stored file as it was, and both return descriptors with equal
\* relative_path, sha256, size and mime_type; a call writes only when its
\* target file did not exist.
C9_SaveImageIdempotent ==
    call.op = "save_image" =>
        /\ call.wrote => call.ret.relative_path \notin DOMAIN call.before
        /\ (prev.op = "save_image" /\ prev.args = call.args) =>
              /\ ~call.wrote
              /\ image_files = call.before
              /\ call.ret.relative_path = prev.ret.relative_path
              /\ call.ret.sha256 = prev.ret.sha256
              /\ call.ret.size = prev.ret.size
              /\ call.ret.mime_type = prev.ret.mime_type

\* the same save made twice in a row, the first of them writing the file
C9_Witness ==
    /\ call.op = "save_image"
    /\ prev.op = "save_image"
    /\ prev.args = call.args
    /\ prev.wrote

\* the descriptor names a stored file that holds the bytes it describes
DescribesStoredFile(descriptor) ==
    /\ descriptor.relative_path \in DOMAIN image_files
    /\ sha256_hex(image_files[descriptor.relative_path]) = descriptor.sha256
    /\ Len(image_files[descriptor.relative_path]) = descriptor.size

\* C30: after any sequence of save_image calls, calls that reuse a message
\* id with other bytes included, the descriptor a call returned describes
\* the stored file it points to: the file at relative_path holds bytes
\* whose SHA-256 is the descriptor's sha256 and whose length is its size.
C30_DescriptorDescribesFile ==
    /\ (call.op = "save_image" => DescribesStoredFile(call.ret))
    /\ (prev.op = "save_image" => DescribesStoredFile(prev.ret))

\* what the code does keep: the descriptor of a call that wrote the file,
\* or that found the very bytes stored, describes the file, then and later
DescriptorOfWrittenFile ==
    /\ (call.op = "save_image"
          /\ (call.wrote
               \/ call.before[call.ret.relative_path] = call.args[3]))
        => DescribesStoredFile(call.ret)
    /\ (prev.op = "save_image"
          /\ (prev.wrote
               \/ prev.before[prev.ret.relative_path] = prev.args[3]))
        => DescribesStoredFile(prev.ret)

(***************************************************************************)
(* token_utils.py                                                          *)
(* A text is a string; a message is [role, multipart, content], content    *)
(* being a string, or, when multipart, a list of typed parts.              *)
(***************************************************************************)
Max(a, b) == IF a >= b THEN a ELSE b

Min(a, b) == IF a <= b THEN a ELSE b

\* text[:n], Python's slice: a negative n counts from the end
SlicePrefix(text, n) ==
    IF n >= 0
    THEN SubSeq(text, 1, Min(n, Len(text)))
    ELSE SubSeq(text, 1, Max(0, Len(text) + n))

\* max(1, math.ceil(len(text) / 4)), 0 for the empty text
estimate_tokens(text) ==
    IF text = "" THEN 0 ELSE Max(1, (Len(text) + 3) \div 4)

RECURSIVE SumTextParts(_)
SumTextParts(parts) ==
    IF parts = << >> THEN 0
    ELSE (IF Head(parts).type = "text"
          THEN estimate_tokens(Head(parts).text) ELSE 0)
         + SumTextParts(Tail(parts))

estimate_message_tokens(message) ==
    IF message.multipart
    THEN SumTextParts(message.content)
    ELSE estimate_tokens(message.content)

RECURSIVE estimate_messages_tokens(_)
estimate_messages_tokens(messages) ==
    IF messages = << >> THEN 0
    ELSE estimate_message_tokens(Head(messages))
         + estimate_messages_tokens(Tail(messages))

truncate_text_to_tokens(text, max_tokens) ==
    IF estimate_tokens(text) <= max_tokens
    THEN text
    ELSE SlicePrefix(text, max_tokens * 4)

(***************************************************************************)
(* bot.py: WxAutoBot._trim_context and _truncate_latest                    *)
(***************************************************************************)
\* an optional int argument: None, or a value
None == << >>

Some(x) == <<x>>

\* budget or default: None and 0 are both falsy
OrDefault(budget, default) ==
    IF budget = None \/ budget = Some(0) THEN default ELSE budget[1]

_truncate_latest(latest_messages, budget, max_single_message_tokens) ==
    IF latest_messages = << >> THEN latest_messages
    ELSE
      LET limit == OrDefault(budget, max_single_message_tokens)
          message == latest_messages[1]
          cut(item) == IF item.type = "text"
                       THEN [item EXCEPT
                               !.text = truncate_text_to_tokens(item.text, limit)]
                       ELSE item
      IN  IF message.multipart
          THEN [latest_messages EXCEPT ![1] =
                  [message EXCEPT !.content =
                     [i \in DOMAIN message.content |-> cut(message.content[i])]]]
          ELSE [latest_messages EXCEPT ![1] =
                  [message EXCEPT !.content =
                     truncate_text_to_tokens(message.content, limit)]]

\* the mutant skips a record that does not fit and goes on to older ones
RECURSIVE trimmed_history_skipping(_, _)
trimmed_history_skipping(history_messages, remaining) ==
    IF history_messages = << >> THEN << >>
    ELSE
      LET record == history_messages[Len(history_messages)]
          record_tokens == estimate_tokens(record.content)
          older == SubSeq(history_messages, 1, Len(history_messages) - 1)
      IN  IF record_tokens <= remaining
          THEN trimmed_history_skipping(older, remaining - record_tokens)
                  \o <<record>>
          ELSE trimmed_history_skipping(older, remaining)

\* the loop of _trim_context over reversed(history_messages), and the
\* reverse() after it: the records kept, in their original order
RECURSIVE trimmed_history(_, _)
trimmed_history(history_messages, remaining) ==
    IF history_messages = << >> THEN << >>
    ELSE
      LET record == history_messages[Len(history_messages)]
          record_tokens == estimate_tokens(record.content)
      IN  IF record_tokens <= remaining
          THEN trimmed_history(SubSeq(history_messages, 1,
                                      Len(history_messages) - 1),
                               remaining - record_tokens) \o <<record>>
          ELSE << >>

_trim_context(system_messages, history_messages, latest_messages, budget, max_single_message_tokens) ==
    LET system_tokens == estimate_messages_tokens(system_messages)
        latest1 == IF estimate_messages_tokens(latest_messages)
                        > max_single_message_tokens
                   THEN _truncate_latest(latest_messages, None,
                                        max_single_message_tokens)
                   ELSE latest_messages
        latest2 == IF system_tokens + estimate_messages_tokens(latest1) > budget
                   THEN _truncate_latest(latest1, Some(budget - system_tokens),
                                        max_single_message_tokens)
                   ELSE latest1
        total == system_tokens + estimate_messages_tokens(latest2)
        remaining == budget - total
    IN  system_messages \o trimmed_history(history_messages, remaining)
                        \o latest2

PlainMessage(role, text) == [role |-> role, multipart |-> FALSE, content |-> text]

\* LlmClient.image_to_message: a part that is not of type text
ImagePart(image_bytes, mime_type) ==
    [type |-> "image_url", bytes |-> image_bytes, mime |-> mime_type]

ImageMessage(text, image_bytes, mime_type) ==
    [role |-> "user", multipart |-> TRUE,
     content |-> <<[type |-> "text", text |-> text],
                   ImagePart(image_bytes, mime_type)>>]

\* system prompts of 0, 1, 2 and 4 estimated tokens
SystemPrompts == {"", "sys!", "be brief", "system prompt"}

\* history messages of 0, 1, 2 and 4 estimated tokens
HistoryMessages ==
    { PlainMessage("user", ""), PlainMessage("assistant", "ok"),
      PlainMessage("user", "Al: hey"), PlainMessage("user", "Al: a long line") }

Histories == UNION { [1..n -> HistoryMessages] : n \in 0..MaxHistory }

\* new messages: plain texts of 0, 1, 2 and 4 tokens, and image messages
LatestMessages ==
    { PlainMessage("user", ""), PlainMessage("user", "hi"),
      PlainMessage("user", "hello"), PlainMessage("user", "hello, world!"),
      ImageMessage("look", "AB", <<"image", "png">>),
      ImageMessage("what is this", "AB", <<"image", "png">>) }

\* the arguments of a _trim_context call about to be made
InitTrim ==
    /\ InitMemory
    /\ InitDisk
    /\ InitObserved
    /\ \E cap \in {1, 3} :
          config = [DefaultConfig EXCEPT !.max_single_message_tokens = cap]
    /\ \E system \in SystemPrompts, history \in Histories,
          latest \in LatestMessages, budget \in 1..MaxBudget :
          call = [op |-> "trim_args",
                  system_messages |-> <<PlainMessage("system", system)>>,
                  history_messages |-> history,
                  latest_messages |-> <<latest>>,
                  budget |-> budget]

TrimContext ==
    /\ call.op = "trim_args"
    /\ call' = [op |-> "trim_context",
                system_messages |-> call.system_messages,
                history_messages |-> call.history_messages,
                latest_messages |-> call.latest_messages,
                budget |-> call.budget,
                ret |-> _trim_context(call.system_messages,
                                     call.history_messages,
                                     call.latest_messages, call.budget,
                                     config.max_single_message_tokens)]
    /\ UNCHANGED <<now, config, memVars, storeVars, ghostVars>>

NextTrim == TrimContext

SpecTrim == InitTrim /\ [][NextTrim]_vars
\* C10: for a system message of N estimated tokens that itself fits a
\* positive budget B (N <= B), any new message and any history of more than
\* B - N estimated tokens, the prompt _trim_context returns has at most B
\* estimated tokens.  (For N > B no prompt that holds the system message
\* can fit.)
C10_BudgetRespected ==
    (/\ call.op = "trim_context"
     /\ call.budget > 0
     /\ estimate_messages_tokens(call.system_messages) <= call.budget
     /\ estimate_messages_tokens(call.history_messages)
           > call.budget - estimate_messages_tokens(call.system_messages))
    => estimate_messages_tokens(call.ret) <= call.budget

\* the budget is kept whenever the system message leaves room (N < B)
TrimFitsBelowBudget ==
    (/\ call.op = "trim_context"
     /\ estimate_messages_tokens(call.system_messages) < call.budget)
    => estimate_messages_tokens(call.ret) <= call.budget

\* text a is the start of text b
IsPrefixText(a, b) == Len(a) <= Len(b) /\ SubSeq(b, 1, Len(a)) = a

\* the part of the returned prompt between the system messages and the new
\* message
KeptHistory ==
    SubSeq(call.ret, Len(call.system_messages) + 1,
           Len(call.ret) - Len(call.latest_messages))

\* the budget left for history by the system messages and the new message
\* as it stands in the returned prompt
RemainingForHistory ==
    call.budget - estimate_messages_tokens(call.system_messages)
                - estimate_message_tokens(call.ret[Len(call.ret)])

\* the suffix of the input history from record i on
HistoryFrom(i) ==
    SubSeq(call.history_messages, i, Len(call.history_messages))

\* the new message of the prompt is the new message of the call, cut or not
IsCutOf(kept, given) ==
    /\ kept.role = given.role
    /\ kept.multipart = given.multipart
    /\ IF given.multipart
       THEN /\ Len(kept.content) = Len(given.content)
            /\ \A i \in DOMAIN given.content :
                  IF given.content[i].type = "text"
                  THEN /\ kept.content[i].type = "text"
                       /\ IsPrefixText(kept.content[i].text,
                                       given.content[i].text)
                  ELSE kept.content[i] = given.content[i]
       ELSE IsPrefixText(kept.content, given.content)

\* C11: the prompt _trim_context returns is the system messages, then a
\* suffix of the input history in its original order, then the new message
\* (cut or not); the suffix is the longest one whose estimated tokens fit
\* the budget left by the system messages and the new message, so it ends
\* at the most recent record that would overflow and holds no older one.
C11_KeptHistoryIsLongestFittingSuffix ==
    call.op = "trim_context" =>
       LET n == Len(call.history_messages)
           k == Len(KeptHistory)
       IN  /\ Len(call.ret) >= Len(call.system_messages)
                                + Len(call.latest_messages)
           /\ SubSeq(call.ret, 1, Len(call.system_messages))
                 = call.system_messages
           /\ IsCutOf(call.ret[Len(call.ret)], call.latest_messages[1])
           /\ k <= n
           /\ KeptHistory = HistoryFrom(n - k + 1)
           /\ k > 0 => estimate_messages_tokens(KeptHistory)
                          <= RemainingForHistory
           /\ k < n => estimate_messages_tokens(HistoryFrom(n - k))
                          > RemainingForHistory

\* a call that keeps a record, drops the one before it and with it an older
\* record that would still have fitted
C11_Witness ==
    /\ call.op = "trim_context"
    /\ Len(KeptHistory) > 0
    /\ Len(KeptHistory) + 1 < Len(call.history_messages)
    /\ estimate_message_tokens(call.history_messages[1])
          + estimate_messages_tokens(KeptHistory) <= RemainingForHistory
    /\ estimate_message_tokens(call.history_messages[1]) > 0

(***************************************************************************)
(* Python str methods used by bot.py.                                      *)
(***************************************************************************)
UpperLetters == "ABCDEFGHIJKLMNOPQRSTUVWXYZ"

LowerLetters == "abcdefghijklmnopqrstuvwxyz"

\* c.lower() for a text c of one character
LowerChar(c) ==
    IF \E i \in 1..Len(UpperLetters) : SubSeq(UpperLetters, i, i) = c
    THEN LET i == CHOOSE j \in 1..Len(UpperLetters) :
                      SubSeq(UpperLetters, j, j) = c
         IN  SubSeq(LowerLetters, i, i)
    ELSE c

\* text.lower()
RECURSIVE Lower(_)
Lower(text) ==
    IF text = "" THEN ""
    ELSE LowerChar(SubSeq(text, 1, 1)) \o Lower(SubSeq(text, 2, Len(text)))

\* sub in text
Contains(sub, text) ==
    \E i \in 1..(Len(text) - Len(sub) + 1) :
        SubSeq(text, i, i + Len(sub) - 1) = sub

Whitespace == {" ", "\n", "\t"}

\* text.strip()
RECURSIVE Strip(_)
Strip(text) ==
    IF text = "" THEN ""
    ELSE IF SubSeq(text, 1, 1) \in Whitespace
    THEN Strip(SubSeq(text, 2, Len(text)))
    ELSE IF SubSeq(text, Len(text), Len(text)) \in Whitespace
    THEN Strip(SubSeq(text, 1, Len(text) - 1))
    ELSE text

\* hashlib.sha1(text.encode("utf-8")).hexdigest()
sha1_hex(text) == "sha1(" \o text \o ")"

(***************************************************************************)
(* storage.py: SessionStore.append_history and load_history                *)
(* A line of history.jsonl is [valid, value]: the JSON text of a record    *)
(* (json.dumps puts a record on one line and json.loads gives it back), or *)
(* a line json.loads rejects.                                              *)
(***************************************************************************)
history_path(scope, session_id) ==
    session_dir(scope, session_id) \o "/history.jsonl"

\* json.dumps(record, ensure_ascii=False)
json_dumps(record) == [valid |-> TRUE, value |-> record]

\* the mutant opens the file with mode "w": the log is rewritten
append_history_rewriting(files, scope, session_id, record) ==
    Put(files, history_path(scope, session_id), <<json_dumps(record)>>)

append_history(files, scope, session_id, record) ==
    LET path == history_path(scope, session_id)
    IN  Put(files, path, Get(files, path, << >>) \o <<json_dumps(record)>>)

IsValidLine(line) == line.valid

\* the records of the lines json.loads accepts, in file order
load_history_path(files, path) ==
    IF path \notin DOMAIN files THEN << >>
    ELSE LET good == SelectSeq(files[path], IsValidLine)
         IN  [i \in DOMAIN good |-> good[i].value]

load_history(files, scope, session_id) ==
    load_history_path(files, history_path(scope, session_id))

(***************************************************************************)
(* bot.py: WxAutoBot                                                       *)
(* The bot's state is the record of its fields and of the files of its     *)
(* store; every method takes it and returns it changed.                    *)
(***************************************************************************)
\* an inbound text event (models.py IncomingMessage); the empty string is a
\* missing (None) field, << >> a missing mime type
TextMessage(message_id, timestamp, sender_id, sender_name, content) ==
    [ message_id      |-> message_id,
      timestamp       |-> timestamp,
      sender_id       |-> sender_id,
      sender_name     |-> sender_name,
      content         |-> content,
      msg_type        |-> "text",
      is_group        |-> FALSE,
      group_id        |-> "",
      group_name      |-> "",
      is_at           |-> FALSE,
      conversation_id |-> "",
      image_bytes     |-> "",
      image_mime      |-> << >> ]

\* the mutant takes no event for the bot's own
_is_self_message_never(cfg, msg) == FALSE

_is_self_message(cfg, msg) ==
    IF cfg.self_user_id = "" THEN FALSE
    ELSE msg.sender_id = cfg.self_user_id

\* a or b or c
Or3(a, b, c) == IF a # "" THEN a ELSE IF b # "" THEN b ELSE c

_resolve_session(st, msg) ==
    LET scope == IF msg.is_group THEN "group" ELSE "private"
        session_key ==
            IF msg.conversation_id # "" THEN msg.conversation_id
            ELSE IF msg.is_group
            THEN Or3(msg.group_id, msg.group_name, msg.sender_id)
            ELSE msg.sender_id
        display_name == IF msg.is_group THEN msg.group_name
                        ELSE msg.sender_name
        r == resolve_session(st.sessions, st.index_file, scope, session_key,
                             display_name)
    IN  [st |-> [st EXCEPT !.sessions = r.sessions, !.index_file = r.file],
         session |-> [scope |-> scope, session_id |-> r.ret,
                      session_key |-> session_key,
                      display_name |-> display_name]]

_hash_content(msg) ==
    sha1_hex(msg.sender_id \o ":" \o msg.content \o ":"
             \o ToString(msg.timestamp))

\* re.search(pattern, text) for a pattern [anchored, literal]: the literal,
\* at the start of the text when anchored (^), anywhere otherwise
re_search(pattern, text) ==
    IF pattern.anchored
    THEN /\ Len(pattern.literal) <= Len(text)
         /\ SubSeq(text, 1, Len(pattern.literal)) = pattern.literal
    ELSE Contains(pattern.literal, text)

\* the mutant compares the keywords as they are written
_match_keywords_case_sensitive(content, keywords) ==
    IF content = "" \/ keywords = << >> THEN FALSE
    ELSE \E i \in DOMAIN keywords : Contains(keywords[i], content)

_match_keywords(content, keywords) ==
    IF content = "" \/ keywords = << >> THEN FALSE
    ELSE \E i \in DOMAIN keywords :
            Contains(Lower(keywords[i]), Lower(content))

_should_trigger(cfg, msg) ==
    IF msg.is_group
    THEN IF cfg.group_mode = "mention_keyword"
         THEN msg.is_at /\ _match_keywords(msg.content, cfg.group_keywords)
         ELSE msg.is_at
    ELSE IF cfg.private_mode = "always" THEN TRUE
    ELSE IF cfg.private_mode = "keyword"
    THEN _match_keywords(msg.content, cfg.private_keywords)
    ELSE IF cfg.private_mode = "regex" /\ cfg.private_regex # None
    THEN re_search(cfg.private_regex[1], msg.content)
    ELSE FALSE

\* the record _append_history writes; image is None or Some(image meta)
received_record(msg, session, image_meta) ==
    [ timestamp   |-> msg.timestamp,
      direction   |-> "received",
      sender      |-> msg.sender_name,
      type        |-> msg.msg_type,
      content     |-> msg.content,
      message_id  |-> msg.message_id,
      session_key |-> session.session_key,
      image       |-> IF image_meta # None
                      THEN Some([path   |-> image_meta[1].relative_path,
                                 sha256 |-> image_meta[1].sha256,
                                 size   |-> image_meta[1].size,
                                 mime   |-> image_meta[1].mime_type])
                      ELSE None ]

\* st.effects lists, in the order the statements run, what handle_message
\* has done so far to the store, the model client and the adapter, and what
\* the model client answered
Effect(op, arg) == [op |-> op, arg |-> arg]

_append_history(st, msg, session, image_meta) ==
    [st EXCEPT !.history_files =
        append_history(st.history_files, session.scope, session.session_id,
                       received_record(msg, session, image_meta)),
               !.effects = Append(@, Effect("append_history", "received"))]

\* the record _append_reply writes at time t
sent_record(session, content, t) ==
    [ timestamp   |-> t,
      direction   |-> "sent",
      sender      |-> "bot",
      type        |-> "text",
      content     |-> content,
      message_id  |-> sha1_hex("reply:" \o content \o ":" \o ToString(t)),
      session_key |-> session.session_key,
      image       |-> None ]

\* the mutant writes the reply down as an inbound record
_append_reply_as_received(st, session, content, t) ==
    [st EXCEPT !.history_files =
        append_history(st.history_files, session.scope, session.session_id,
                       [sent_record(session, content, t) EXCEPT
                           !.direction = "received"]),
               !.effects = Append(@, Effect("append_history", "sent"))]

_append_reply(st, session, content, t) ==
    [st EXCEPT !.history_files =
        append_history(st.history_files, session.scope, session.session_id,
                       sent_record(session, content, t)),
               !.effects = Append(@, Effect("append_history", "sent"))]

_fixed_reply_for_scope(cfg, scope) ==
    IF scope = "group" THEN cfg.group_fixed_reply ELSE cfg.private_fixed_reply

_should_process_image(cfg, msg) ==
    IF msg.is_group THEN cfg.vision_enable_group /\ msg.is_at
    ELSE cfg.vision_enable_private

\* config.py PersonaConfig.prompt_for_scope
prompt_for_scope(cfg, scope) ==
    IF scope = "group" /\ cfg.group_prompt # ""
    THEN cfg.global_prompt \o "\n" \o cfg.group_prompt
    ELSE IF scope = "private" /\ cfg.private_prompt # ""
    THEN cfg.global_prompt \o "\n" \o cfg.private_prompt
    ELSE cfg.global_prompt

\* the placeholder of an image record: 10 characters (two of them CJK in
\* the source) and the image's digest
ImagePlaceholder == "[pc] hash="

\* one record of _history_to_messages
history_message(record) ==
    LET role == IF record.direction = "sent" THEN "assistant" ELSE "user"
        body == IF record.type = "image"
                THEN ImagePlaceholder
                     \o (IF record.image # None THEN record.image[1].sha256
                         ELSE "")
                ELSE record.content
        content == IF record.sender # "" /\ role = "user"
                   THEN record.sender \o ": " \o body
                   ELSE body
    IN  PlainMessage(role, content)

_history_to_messages(history) ==
    [i \in DOMAIN history |-> history_message(history[i])]

\* the text sent with an image that has none: 8 characters in the source
DefaultImagePrompt == "describe"

_build_latest_message(msg, image_meta) ==
    IF msg.msg_type = "image" /\ msg.image_bytes # "" /\ msg.image_mime # << >>
    THEN <<ImageMessage(IF msg.content # "" THEN msg.content
                        ELSE DefaultImagePrompt,
                        msg.image_bytes, msg.image_mime)>>
    ELSE <<PlainMessage("user", msg.content)>>

\* the mutant reserves the model's own maximum whatever the scope
_max_output_tokens_of_api(cfg, scope) == cfg.api_max_output_tokens

_max_output_tokens(cfg, scope) ==
    IF scope = "group"
    THEN Min(cfg.max_group_output_tokens, cfg.api_max_output_tokens)
    ELSE Min(cfg.max_private_output_tokens, cfg.api_max_output_tokens)

\* what _generate_reply returns: the bot after it, the reply text and the
\* prompts it handed to LlmClient.send
Reply(st, reply, prompts) == [st |-> st, reply |-> reply, prompts |-> prompts]

HasOtherId(record, message_id) == record.message_id # message_id

\* the mutant answers a failed call with the text of the error
_generate_reply_send_leaking(st, cfg, session, image_meta, messages, response_tokens, llm, t) ==
    LET failed == [st EXCEPT !.failure_tracker =
                     register_failure(st.failure_tracker, cfg.max_failures,
                                      cfg.failure_cooldown,
                                      session.session_id, t),
                             !.effects =
                                @ \o <<Effect("client.send", ""),
                                       Effect("client.raised", llm.text)>>]
        succeeded == [st EXCEPT !.failure_tracker =
                        register_success(st.failure_tracker,
                                         session.session_id),
                                !.effects =
                                   @ \o <<Effect("client.send", ""),
                                          Effect("client.returned",
                                                 llm.text)>>]
    IN  IF ~llm.ok THEN Reply(failed, llm.text, <<messages>>)
        ELSE Reply(succeeded, truncate_text_to_tokens(Strip(llm.text),
                                                      response_tokens),
                   <<messages>>)

\* the mutant caches the reply after it was cut to the scope's output cap
_generate_reply_send_caching_cut(st, cfg, session, image_meta, messages, response_tokens, llm, t) ==
    LET failed == [st EXCEPT !.failure_tracker =
                     register_failure(st.failure_tracker, cfg.max_failures,
                                      cfg.failure_cooldown,
                                      session.session_id, t),
                             !.effects =
                                @ \o <<Effect("client.send", ""),
                                       Effect("client.raised", llm.text)>>]
        succeeded == [st EXCEPT !.failure_tracker =
                        register_success(st.failure_tracker,
                                         session.session_id),
                                !.effects =
                                   @ \o <<Effect("client.send", ""),
                                          Effect("client.returned",
                                                 llm.text)>>]
        reply == truncate_text_to_tokens(Strip(llm.text), response_tokens)
    IN  IF ~llm.ok THEN Reply(failed, cfg.fallback_reply, <<messages>>)
        ELSE IF reply = "" THEN Reply(succeeded, "", <<messages>>)
        ELSE Reply([succeeded EXCEPT !.vision_cache =
                       IF image_meta # None
                       THEN Put(@, image_meta[1].sha256, reply)
                       ELSE @],
                   reply, <<messages>>)

\* bot.py:207-221, the call of the model and what follows it. llm is the
\* outcome of LlmClient.send: [ok, text], ok false for a timeout, a
\* transport error or a non-success status
_generate_reply_send(st, cfg, session, image_meta, messages, response_tokens, llm, t) ==
    LET failed == [st EXCEPT !.failure_tracker =
                     register_failure(st.failure_tracker, cfg.max_failures,
                                      cfg.failure_cooldown,
                                      session.session_id, t),
                             !.effects =
                                @ \o <<Effect("client.send", ""),
                                       Effect("client.raised", llm.text)>>]
        succeeded == [st EXCEPT !.failure_tracker =
                        register_success(st.failure_tracker,
                                         session.session_id),
                                !.effects =
                                   @ \o <<Effect("client.send", ""),
                                          Effect("client.returned",
                                                 llm.text)>>]
        reply == Strip(llm.text)
    IN  IF ~llm.ok THEN Reply(failed, cfg.fallback_reply, <<messages>>)
        ELSE IF reply = "" THEN Reply(succeeded, "", <<messages>>)
        ELSE Reply([succeeded EXCEPT !.vision_cache =
                       IF image_meta # None
                       THEN Put(@, image_meta[1].sha256, reply)
                       ELSE @],
                   truncate_text_to_tokens(reply, response_tokens),
                   <<messages>>)

\* the mutant gives up only below a budget of zero
_generate_reply_below_zero(st, cfg, msg, session, image_meta, llm, t) ==
    LET fixed_reply == _fixed_reply_for_scope(cfg, session.scope)
        loaded == load_history(st.history_files, session.scope,
                               session.session_id)
        history == IF msg.message_id # ""
                   THEN SelectSeq(loaded,
                                  LAMBDA record :
                                      HasOtherId(record, msg.message_id))
                   ELSE loaded
        history_messages == _history_to_messages(history)
        system_message ==
            PlainMessage("system", prompt_for_scope(cfg, session.scope))
        latest_user == _build_latest_message(msg, image_meta)
        response_tokens == _max_output_tokens(cfg, session.scope)
        budget == cfg.token_budget - response_tokens
        messages == _trim_context(<<system_message>>, history_messages,
                                  latest_user, budget,
                                  cfg.max_single_message_tokens)
    IN  IF fixed_reply # "" THEN Reply(st, fixed_reply, << >>)
        ELSE IF msg.msg_type = "image" /\ ~_should_process_image(cfg, msg)
        THEN Reply(st, "", << >>)
        ELSE IF budget < 0 THEN Reply(st, cfg.fallback_reply, << >>)
        ELSE IF image_meta # None
                /\ image_meta[1].sha256 \in DOMAIN st.vision_cache
        THEN Reply(st,
                   truncate_text_to_tokens(
                       st.vision_cache[image_meta[1].sha256], response_tokens),
                   << >>)
        ELSE _generate_reply_send(st, cfg, session, image_meta, messages,
                                  response_tokens, llm, t)

_generate_reply(st, cfg, msg, session, image_meta, llm, t) ==
    LET fixed_reply == _fixed_reply_for_scope(cfg, session.scope)
        loaded == load_history(st.history_files, session.scope,
                               session.session_id)
        history == IF msg.message_id # ""
                   THEN SelectSeq(loaded,
                                  LAMBDA record :
                                      HasOtherId(record, msg.message_id))
                   ELSE loaded
        history_messages == _history_to_messages(history)
        system_message ==
            PlainMessage("system", prompt_for_scope(cfg, session.scope))
        latest_user == _build_latest_message(msg, image_meta)
        response_tokens == _max_output_tokens(cfg, session.scope)
        budget == cfg.token_budget - response_tokens
        messages == _trim_context(<<system_message>>, history_messages,
                                  latest_user, budget,
                                  cfg.max_single_message_tokens)
    IN  IF fixed_reply # "" THEN Reply(st, fixed_reply, << >>)
        ELSE IF msg.msg_type = "image" /\ ~_should_process_image(cfg, msg)
        THEN Reply(st, "", << >>)
        ELSE IF budget <= 0 THEN Reply(st, cfg.fallback_reply, << >>)
        ELSE IF image_meta # None
                /\ image_meta[1].sha256 \in DOMAIN st.vision_cache
        THEN Reply(st,
                   truncate_text_to_tokens(
                       st.vision_cache[image_meta[1].sha256], response_tokens),
                   << >>)
        ELSE _generate_reply_send(st, cfg, session, image_meta, messages,
                                  response_tokens, llm, t)

\* what handle_message leaves: the bot after it, where it returned, the
\* session it resolved (None before that), the prompts handed to the model
\* and the texts handed to adapter.send_text
Handled(st, outcome, session, prompts, sent) ==
    [st |-> st, outcome |-> outcome, session |-> session,
     prompts |-> prompts, sent |-> sent]

\* the mutant sends the reply and leaves it out of the history
send_reply_unrecorded(g, session, t) ==
    IF g.reply # ""
    THEN Handled([g.st EXCEPT !.effects =
                     Append(@, Effect("adapter.send_text", g.reply))],
                 "replied", Some(session), g.prompts, <<g.reply>>)
    ELSE Handled(g.st, "no_reply", Some(session), g.prompts, << >>)

\* bot.py:84-87: a reply that is not empty is sent and recorded
send_reply(g, session, t) ==
    IF g.reply # ""
    THEN Handled(_append_reply([g.st EXCEPT !.effects =
                                   Append(@, Effect("adapter.send_text",
                                                    g.reply))],
                               session, g.reply, t),
                 "replied", Some(session), g.prompts, <<g.reply>>)
    ELSE Handled(g.st, "no_reply", Some(session), g.prompts, << >>)

\* the mutant asks the sender cooldown first
handle_triggered_sender_first(st, sc, cfg, msg, session, image_meta, llm, t) ==
    LET uc == in_cooldown(st.user_cooldown, cfg.user_cooldown_seconds,
                          msg.sender_id, t)
        st3 == [st EXCEPT !.user_cooldown = uc.last_hit]
        st4 == [st3 EXCEPT !.session_cooldown = sc.last_hit]
    IN  IF uc.ret
        THEN Handled(st3, "user_cooldown", Some(session), << >>, << >>)
        ELSE IF sc.ret
        THEN Handled(st4, "session_cooldown", Some(session), << >>, << >>)
        ELSE send_reply(_generate_reply(st4, cfg, msg, session, image_meta,
                                        llm, t),
                        session, t)

\* bot.py:76-87: the two cooldowns, then the reply; sc is what the session
\* cooldown answered for the bot st
handle_triggered(st, sc, cfg, msg, session, image_meta, llm, t) ==
    LET st3 == [st EXCEPT !.session_cooldown = sc.last_hit]
        uc == in_cooldown(st.user_cooldown, cfg.user_cooldown_seconds,
                          msg.sender_id, t)
        st4 == [st3 EXCEPT !.user_cooldown = uc.last_hit]
    IN  IF sc.ret
        THEN Handled(st3, "session_cooldown", Some(session), << >>, << >>)
        ELSE IF uc.ret
        THEN Handled(st4, "user_cooldown", Some(session), << >>, << >>)
        ELSE send_reply(_generate_reply(st4, cfg, msg, session, image_meta,
                                        llm, t),
                        session, t)

\* bot.py:72-87: the inbound record is appended to the history of the
\* bot st, which holds the image of the event (image_meta) if it has one
handle_recorded(st, cfg, msg, session, image_meta, llm, t) ==
    IF ~_should_trigger(cfg, msg)
    THEN Handled(st, "not_triggered", Some(session), << >>, << >>)
    ELSE handle_triggered(st,
                          in_cooldown(st.session_cooldown,
                                      cfg.session_cooldown_seconds,
                                      session.session_id, t),
                          cfg, msg, session, image_meta, llm, t)

\* the mutant records only the events that trigger a reply
handle_saved_unrecorded(st, cfg, msg, session, image_meta, llm, t) ==
    IF ~_should_trigger(cfg, msg)
    THEN Handled(st, "not_triggered", Some(session), << >>, << >>)
    ELSE handle_recorded(_append_history(st, msg, session, image_meta), cfg,
                         msg, session, image_meta, llm, t)

\* the mutant catches the error of the write and goes on
handle_saved_swallowing(st, cfg, msg, session, image_meta, llm, t) ==
    IF st.fault = "append_history"
    THEN handle_recorded(st, cfg, msg, session, image_meta, llm, t)
    ELSE handle_recorded(_append_history(st, msg, session, image_meta), cfg,
                         msg, session, image_meta, llm, t)

\* st.fault names the write of the store that fails for this event, if any
\* ("save_image", "append_history"): the exception of a failed write is
\* caught nowhere in handle_message, which ends there
Raised(st, session, write) ==
    Handled([st EXCEPT !.effects = Append(@, Effect("raised", write))],
            "raised", Some(session), << >>, << >>)

\* bot.py:62-72: the image of the event is saved, the event is recorded
handle_saved(st, cfg, msg, session, image_meta, llm, t) ==
    IF st.fault = "append_history"
    THEN Raised(st, session, "append_history")
    ELSE handle_recorded(_append_history(st, msg, session, image_meta), cfg,
                         msg, session, image_meta, llm, t)

\* handle_message from the trigger evaluation on (bot.py:54-87)
handle_accepted(st, cfg, msg, session, llm, t) ==
    LET has_image == /\ msg.msg_type = "image"
                     /\ msg.image_bytes # ""
                     /\ msg.image_mime # << >>
        saved == save_image(st.image_files, session.scope, session.session_id,
                            msg.image_bytes, msg.image_mime, msg.message_id)
    IN  IF has_image /\ st.fault = "save_image"
        THEN Raised(st, session, "save_image")
        ELSE
        handle_saved(IF has_image
                     THEN [st EXCEPT !.image_files = saved.files,
                                     !.effects =
                                        Append(@, Effect("save_image", ""))]
                     ELSE st,
                     cfg, msg, session,
                     IF has_image THEN Some(saved.ret) ELSE None, llm, t)

\* the mutant asks the failure tracker before the dedupe cache
handle_message_blocked_first(st, cfg, msg, llm, t) ==
    IF _is_self_message(cfg, msg)
    THEN Handled(st, "self", None, << >>, << >>)
    ELSE
      LET rs == _resolve_session(st, msg)
          session == rs.session
          unique_key == IF msg.message_id # "" THEN msg.message_id
                        ELSE _hash_content(msg)
          blocked == is_blocked(rs.st.failure_tracker, session.session_id, t)
          seen == seen_recently(rs.st.dedupe, cfg.dedupe_window, unique_key, t)
          st1 == [rs.st EXCEPT !.dedupe = seen.cache]
      IN  IF blocked.ret
          THEN Handled(rs.st, "blocked", Some(session), << >>, << >>)
          ELSE IF seen.ret
          THEN Handled(st1, "duplicate", Some(session), << >>, << >>)
          ELSE handle_accepted(st1, cfg, msg, session, llm, t)

handle_message(st, cfg, msg, llm, t) ==
    IF _is_self_message(cfg, msg)
    THEN Handled(st, "self", None, << >>, << >>)
    ELSE
      LET rs == _resolve_session(st, msg)
          session == rs.session
          unique_key == IF msg.message_id # "" THEN msg.message_id
                        ELSE _hash_content(msg)
          seen == seen_recently(rs.st.dedupe, cfg.dedupe_window, unique_key, t)
          st1 == [rs.st EXCEPT !.dedupe = seen.cache]
          blocked == is_blocked(st1.failure_tracker, session.session_id, t)
          st2 == [st1 EXCEPT !.failure_tracker = blocked.tracker]
      IN  IF seen.ret
          THEN Handled(st1, "duplicate", Some(session), << >>, << >>)
          ELSE IF blocked.ret
          THEN Handled(st2, "blocked", Some(session), << >>, << >>)
          ELSE handle_accepted(st2, cfg, msg, session, llm, t)

\* the events the adapter delivers: private texts of one sender under two
\* display names, with timestamps out of order and one ahead of the bot's
\* clock (they come from the source platform), group texts with and
\* without a mention (the latter without a message id), two images under
\* one message id, and a message of the bot's own account
Messages ==
    { TextMessage("m1", 95, "u1", "Alice", "hello"),
      TextMessage("m2", 3, "u1", "Al", "Help me"),
      [TextMessage("m3", 7, "u2", "Bob", "@bot help") EXCEPT
          !.is_group = TRUE, !.group_id = "g1", !.group_name = "Team",
          !.is_at = TRUE],
      [TextMessage("", 6, "u1", "Alice", "chatter") EXCEPT
          !.is_group = TRUE, !.group_id = "g1", !.group_name = "Team"],
      [TextMessage("m5", 8, "u2", "Bob", "") EXCEPT
          !.msg_type = "image", !.image_bytes = "AB",
          !.image_mime = <<"image", "png">>],
      [TextMessage("m5", 8, "u2", "Bob", "") EXCEPT
          !.msg_type = "image", !.image_bytes = "XYZ",
          !.image_mime = <<"image", "png">>],
      TextMessage("m7", 9, "bot", "Bot", "echo") }

\* what LlmClient.send may do: a reply to strip and to cut, a blank reply,
\* an error (text is then the text of the exception)
LlmOutcomes ==
    { [ok |-> TRUE, text |-> " Sure, here you are. "],
      [ok |-> TRUE, text |-> " "],
      [ok |-> FALSE, text |-> "HTTP 500"] }

\* the configurations the bot is run under; the last one leaves no tokens
\* for the prompt (token_budget equals the output cap of either scope)
BotConfigs ==
    { [DefaultConfig EXCEPT !.self_user_id = "bot"],
      [DefaultConfig EXCEPT !.private_mode = "keyword",
                            !.private_keywords = <<"HELP">>,
                            !.group_fixed_reply = "busy",
                            !.vision_enable_private = FALSE,
                            !.max_failures = 1,
                            !.failure_cooldown = 1],
      [DefaultConfig EXCEPT !.token_budget = 3,
                            !.max_group_output_tokens = 3,
                            !.group_fixed_reply = "busy",
                            !.vision_enable_private = FALSE] }

\* the bot: WxAutoBot's fields and the files of its store
Bot ==
    [ dedupe           |-> dedupe,
      session_cooldown |-> session_cooldown,
      user_cooldown    |-> user_cooldown,
      failure_tracker  |-> failure_tracker,
      vision_cache     |-> vision_cache,
      sessions         |-> sessions,
      index_file       |-> index_file,
      history_files    |-> history_files,
      image_files      |-> image_files,
      effects          |-> << >>,
      fault            |-> "none" ]

\* the bot and the record of the event after handle_message returned r
Returned(msg, r) ==
    /\ dedupe' = r.st.dedupe
    /\ session_cooldown' = r.st.session_cooldown
    /\ user_cooldown' = r.st.user_cooldown
    /\ failure_tracker' = r.st.failure_tracker
    /\ vision_cache' = r.st.vision_cache
    /\ sessions' = r.st.sessions
    /\ index_file' = r.st.index_file
    /\ history_files' = r.st.history_files
    /\ image_files' = r.st.image_files
    /\ call' = [op |-> "handle_message", msg |-> msg, at |-> now,
                outcome |-> r.outcome, session |-> r.session,
                prompts |-> r.prompts, sent |-> r.sent,
                effects |-> r.st.effects, fault |-> r.st.fault]

\* main.py:24-27: the adapter delivers msg and bot.handle_message runs to
\* its end; llm is what the model client does if it is called
HandleMessage(msg, llm) ==
    /\ ncalls < MaxEvents
    /\ ncalls' = ncalls + 1
    /\ Returned(msg, handle_message(Bot, config, msg, llm, now))
    /\ UNCHANGED <<now, config, prev, accepted, streak>>

\* time passes between two events
EventTick ==
    /\ now < Epoch + MaxEventTicks
    /\ now' = now + 1
    /\ call' = [op |-> "tick"]
    /\ UNCHANGED <<config, memVars, storeVars, ghostVars>>

InitBot ==
    /\ InitMemory
    /\ InitDisk
    /\ InitObserved
    /\ call = NoCall
    /\ config \in BotConfigs

NextBot ==
    \/ EventTick
    \/ \E msg \in Messages, llm \in LlmOutcomes : HandleMessage(msg, llm)

SpecBot == InitBot /\ [][NextBot]_vars

IsPrefix(a, b) == Len(a) <= Len(b) /\ SubSeq(b, 1, Len(a)) = a

\* C8: in every step each session's log keeps what it held as a prefix (no
\* record is changed, dropped or moved, new ones go to the end whatever
\* their timestamps), so what load_history returned earlier is a prefix of
\* what it returns later; and a handle_message call changes no log but the
\* one of the session it resolved.
C8_HistoryAppendOnly ==
    [][ /\ \A path \in DOMAIN history_files :
              /\ path \in DOMAIN history_files'
              /\ IsPrefix(history_files[path], history_files'[path])
              /\ IsPrefix(load_history_path(history_files, path),
                          load_history_path(history_files', path))
        /\ call'.op = "handle_message" =>
              \A path \in DOMAIN history_files' :
                  (call'.session = None
                     \/ path # history_path(call'.session[1].scope,
                                            call'.session[1].session_id))
                  => /\ path \in DOMAIN history_files
                     /\ history_files'[path] = history_files[path]
      ]_vars

\* two sessions have logs, and one log holds a record with a later
\* timestamp before a record with an earlier one
C8_Witness ==
    /\ Cardinality(DOMAIN history_files) >= 2
    /\ \E path \in DOMAIN history_files :
          LET log == load_history_path(history_files, path)
          IN  \E i, j \in DOMAIN log :
                 i < j /\ log[i].timestamp > log[j].timestamp

\* the names of the effects of the last event, in order
EffectOps(effects) == [i \in DOMAIN effects |-> effects[i].op]

\* the model client was called for the event and returned a text that is
\* not blank
ModelAnswered(c) ==
    \E i \in DOMAIN c.effects :
        c.effects[i].op = "client.returned" /\ Strip(c.effects[i].arg) # ""

\* the text the model client returned for the event
ModelOutput(c) ==
    c.effects[CHOOSE i \in DOMAIN c.effects :
                  c.effects[i].op = "client.returned"].arg

\* reply is text cut to cap estimated tokens
IsTruncationOf(reply, text, cap) ==
    IF estimate_tokens(text) <= cap THEN reply = text
    ELSE /\ IsPrefixText(reply, text)
         /\ Len(reply) = 4 * cap
         /\ estimate_tokens(reply) <= cap

\* C12: when a private text event under private_mode always gets a model
\* call that returns a text that is not blank, handle_message does, in this
\* order: append the received record, call the model (once), hand the reply
\* to the adapter, append the sent record. The session's log grows by
\* exactly these two records, and the text sent and recorded is the model
\* output stripped and cut to the private output-token cap.
C12_ReceivedThenModelThenSent ==
    [][ ( /\ call'.op = "handle_message"
          /\ ~call'.msg.is_group
          /\ call'.msg.msg_type = "text"
          /\ config.private_mode = "always"
          /\ ModelAnswered(call') )
        => LET session == call'.session[1]
               before == load_history(history_files, session.scope,
                                      session.session_id)
               after == load_history(history_files', session.scope,
                                     session.session_id)
               cap == Min(config.max_private_output_tokens,
                          config.api_max_output_tokens)
           IN  /\ EffectOps(call'.effects)
                     = <<"append_history", "client.send", "client.returned",
                         "adapter.send_text", "append_history">>
               /\ call'.effects[1].arg = "received"
               /\ call'.effects[5].arg = "sent"
               /\ Len(call'.prompts) = 1
               /\ Len(call'.sent) = 1
               /\ call'.effects[4].arg = call'.sent[1]
               /\ IsTruncationOf(call'.sent[1], Strip(ModelOutput(call')), cap)
               /\ Len(after) = Len(before) + 2
               /\ IsPrefix(before, after)
               /\ after[Len(before) + 1].direction = "received"
               /\ after[Len(before) + 1].content = call'.msg.content
               /\ after[Len(before) + 1].message_id = call'.msg.message_id
               /\ after[Len(before) + 2].direction = "sent"
               /\ after[Len(before) + 2].content = call'.sent[1]
      ]_vars

\* the event of C12 on a session without prior history: its log holds the
\* received record and the sent record, and the reply was cut
C12_Witness ==
    /\ call.op = "handle_message"
    /\ ~call.msg.is_group
    /\ call.msg.msg_type = "text"
    /\ call.msg.content = "hello"
    /\ config.private_mode = "always"
    /\ ModelAnswered(call)
    /\ call.sent # << >>
    /\ call.sent[1] # Strip(ModelOutput(call))
    /\ Len(load_history(history_files, call.session[1].scope,
                        call.session[1].session_id)) = 2

\* the model client was called for the event and raised
ModelFailed(c) ==
    \E i \in DOMAIN c.effects : c.effects[i].op = "client.raised"

\* how many effects of the event are of the kind op
CountEffects(c, op) ==
    Cardinality({i \in DOMAIN c.effects : c.effects[i].op = op})

\* C13: when the model call of an event fails, handle_message still returns
\* normally: the model was called once, the failure counter of the session
\* (and of no other key) went up by one, and one reply was sent and
\* recorded, the configured fallback string and not the text of the error.
C13_FailedCallAnsweredByFallback ==
    [][ (call'.op = "handle_message" /\ ModelFailed(call'))
        => LET sid == call'.session[1].session_id
               error == call'.effects[CHOOSE i \in DOMAIN call'.effects :
                            call'.effects[i].op = "client.raised"].arg
           IN  /\ call'.outcome = "replied"
               /\ CountEffects(call', "client.send") = 1
               /\ Len(call'.prompts) = 1
               /\ CountEffects(call', "adapter.send_text") = 1
               /\ call'.sent = <<config.fallback_reply>>
               /\ call'.sent[1] # error
               /\ failure_tracker'.failures
                     = Put(failure_tracker.failures, sid,
                           Get(failure_tracker.failures, sid, 0) + 1)
      ]_vars

\* a second failed call in a row for one session: the counter went from
\* one to two
C13_Witness ==
    /\ call.op = "handle_message"
    /\ ModelFailed(call)
    /\ call.sent = <<config.fallback_reply>>
    /\ Get(failure_tracker.failures, call.session[1].session_id, 0) = 2

\* _generate_reply ran for the event
ReachedReply(c) == c.op = "handle_message" /\ c.outcome \in {"replied", "no_reply"}

\* token_budget minus the output tokens reserved for the scope of the event
PromptBudget(c) ==
    config.token_budget
      - (IF c.msg.is_group
         THEN Min(config.max_group_output_tokens, config.api_max_output_tokens)
         ELSE Min(config.max_private_output_tokens,
                  config.api_max_output_tokens))

\* the event is answered before the budget is looked at: its scope has a
\* fixed reply, or it is an image and vision is off for its scope
AnsweredBeforeBudget(c) ==
    \/ (IF c.msg.is_group THEN config.group_fixed_reply
                          ELSE config.private_fixed_reply) # ""
    \/ /\ c.msg.msg_type = "image"
       /\ ~(IF c.msg.is_group THEN config.vision_enable_group
                              ELSE config.vision_enable_private)

\* the event got the fallback reply, with no model call and without a
\* change to the failure tracker
FellBack ==
    /\ CountEffects(call', "client.send") = 0
    /\ call'.prompts = << >>
    /\ call'.sent = <<config.fallback_reply>>
    /\ failure_tracker' = failure_tracker

\* C14 as stated: every event that reaches reply generation with a budget
\* of zero or less gets the fallback reply, with no model call and no
\* change to the failure tracker.
C14_ExhaustedBudgetFallsBack ==
    [][ (ReachedReply(call') /\ PromptBudget(call') <= 0) => FellBack ]_vars

\* C14 amended: the same for the events that _generate_reply does not
\* answer before it computes the budget, that is when the scope has no
\* fixed reply and the event is not an image with vision off for its scope.
C14_ExhaustedBudgetFallsBackUnlessAnsweredBefore ==
    [][ ( /\ ReachedReply(call')
          /\ PromptBudget(call') <= 0
          /\ ~AnsweredBeforeBudget(call') )
        => FellBack ]_vars

\* a private text answered with the fallback at a budget of exactly zero
C14_Witness ==
    /\ ReachedReply(call)
    /\ PromptBudget(call) = 0
    /\ ~AnsweredBeforeBudget(call)
    /\ call.sent = <<config.fallback_reply>>
    /\ call.prompts = << >>

\* C15: an event that is not a self message, not a duplicate and not
\* blocked, and that the trigger policy turns down, is recorded all the
\* same: the log of its session grows by exactly one record, of direction
\* received; there is no model call, no send and no sent record, both
\* cooldown managers and the failure tracker stay as they were.
C15_UntriggeredEventIsRecordedOnly ==
    [][ ( /\ call'.op = "handle_message"
          /\ call'.outcome \notin {"self", "duplicate", "blocked"}
          /\ ~_should_trigger(config, call'.msg) )
        => LET session == call'.session[1]
               before == load_history(history_files, session.scope,
                                      session.session_id)
               after == load_history(history_files', session.scope,
                                     session.session_id)
           IN  /\ call'.outcome = "not_triggered"
               /\ Len(after) = Len(before) + 1
               /\ IsPrefix(before, after)
               /\ after[Len(after)].direction = "received"
               /\ after[Len(after)].message_id = call'.msg.message_id
               /\ after[Len(after)].content = call'.msg.content
               /\ CountEffects(call', "append_history") = 1
               /\ CountEffects(call', "client.send") = 0
               /\ CountEffects(call', "adapter.send_text") = 0
               /\ call'.prompts = << >>
               /\ call'.sent = << >>
               /\ session_cooldown' = session_cooldown
               /\ user_cooldown' = user_cooldown
               /\ failure_tracker' = failure_tracker
      ]_vars

\* an event turned down by the trigger policy in a session whose block has
\* run out, recorded after the exchange that had opened the block
C15_Witness ==
    /\ call.op = "handle_message"
    /\ call.outcome = "not_triggered"
    /\ config.max_failures = 1
    /\ Len(load_history(history_files, call.session[1].scope,
                        call.session[1].session_id)) = 3
    /\ Get(failure_tracker.failures, call.session[1].session_id, 0) = 1
    /\ call.session[1].session_id \in DOMAIN failure_tracker.cooldowns
    /\ failure_tracker.cooldowns[call.session[1].session_id] <= now

(***************************************************************************)
(* bot.py: WxAutoBot._should_trigger on its own, over trigger               *)
(* configurations and events drawn from small sets.                        *)
(***************************************************************************)
KeywordLists == { << >>, <<"HELP">>, <<"bye", "Bot">> }

\* no regex, "lp", "^he" and "^" (which matches every text, the empty one
\* too)
Regexes ==
    { None, Some([anchored |-> FALSE, literal |-> "lp"]),
      Some([anchored |-> TRUE, literal |-> "he"]),
      Some([anchored |-> TRUE, literal |-> ""]) }

TriggerConfigs ==
    { [DefaultConfig EXCEPT !.private_mode = pm, !.private_keywords = pk,
                            !.private_regex = rx, !.group_mode = gm,
                            !.group_keywords = gk] :
        pm \in {"always", "keyword", "regex", "never"}, pk \in KeywordLists,
        rx \in Regexes, gm \in {"mention", "mention_keyword"},
        gk \in KeywordLists }

TriggerTexts == {"", "Help me", "hello bot", "say BYE"}

TriggerMessages ==
    { [TextMessage("m1", 5, "u1", "Alice", text) EXCEPT
          !.is_group = grp, !.group_id = IF grp THEN "g1" ELSE "",
          !.is_at = at] :
        text \in TriggerTexts, grp \in BOOLEAN, at \in BOOLEAN }

InitTrigger ==
    /\ InitMemory
    /\ InitDisk
    /\ InitObserved
    /\ config \in TriggerConfigs
    /\ \E msg \in TriggerMessages : call = [op |-> "trigger_args", msg |-> msg]

ShouldTrigger ==
    /\ call.op = "trigger_args"
    /\ call' = [op |-> "should_trigger", msg |-> call.msg,
                ret |-> _should_trigger(config, call.msg)]
    /\ UNCHANGED <<now, config, memVars, storeVars, ghostVars>>

NextTrigger == ShouldTrigger

SpecTrigger == InitTrigger /\ [][NextTrigger]_vars

\* keyword occurs in text at some position, letters compared without case
OccursIgnoringCase(keyword, text) ==
    \E i \in 1..(Len(text) - Len(keyword) + 1) :
        \A j \in 1..Len(keyword) :
            LowerChar(SubSeq(keyword, j, j))
              = LowerChar(SubSeq(text, i + j - 1, i + j - 1))

HasKeyword(text, keywords) ==
    /\ text # ""
    /\ \E k \in DOMAIN keywords : OccursIgnoringCase(keywords[k], text)

\* the regex matches somewhere in the text
RegexMatches(pattern, text) ==
    IF pattern.anchored
    THEN IsPrefixText(pattern.literal, text)
    ELSE \E i \in 1..(Len(text) - Len(pattern.literal) + 1) :
            SubSeq(text, i, i + Len(pattern.literal) - 1) = pattern.literal

\* C16: a group event triggers a reply iff it is a mention and, in mode
\* mention_keyword, its text holds one of the group keywords, compared
\* without case; a private event triggers always in mode always, iff its
\* text holds a private keyword in mode keyword, iff the regex matches
\* somewhere in the text in mode regex, and never otherwise (unknown mode,
\* mode regex without a regex, no keywords, empty text in mode keyword).
C16_TriggerDecision ==
    call.op = "should_trigger" =>
       LET msg == call.msg
       IN  call.ret <=>
             IF msg.is_group
             THEN /\ msg.is_at
                  /\ config.group_mode = "mention_keyword"
                        => HasKeyword(msg.content, config.group_keywords)
             ELSE \/ config.private_mode = "always"
                  \/ /\ config.private_mode = "keyword"
                     /\ HasKeyword(msg.content, config.private_keywords)
                  \/ /\ config.private_mode = "regex"
                     /\ config.private_regex # None
                     /\ RegexMatches(config.private_regex[1], msg.content)

\* a private text triggers in mode keyword through a keyword written in
\* another case than the text
C16_Witness ==
    /\ call.op = "should_trigger"
    /\ call.ret
    /\ ~call.msg.is_group
    /\ config.private_mode = "keyword"
    /\ ~Contains(config.private_keywords[1], call.msg.content)
    /\ Len(config.private_keywords) = 1

\* C17: an event whose sender is the configured self id is dropped before
\* anything else happens: the session index and its file, the dedupe
\* cache, the history and image files, both cooldown managers, the failure
\* tracker and the image-reply cache are unchanged, and there is no model
\* call and no send. Without a configured self id no event is dropped as a
\* self message.
C17_SelfMessageHasNoEffect ==
    [][ call'.op = "handle_message" =>
          /\ (config.self_user_id # ""
                /\ call'.msg.sender_id = config.self_user_id)
               => /\ call'.outcome = "self"
                  /\ call'.session = None
                  /\ call'.effects = << >>
                  /\ call'.prompts = << >>
                  /\ call'.sent = << >>
                  /\ UNCHANGED <<memVars, storeVars>>
          /\ call'.outcome = "self"
               => /\ config.self_user_id # ""
                  /\ call'.msg.sender_id = config.self_user_id
      ]_vars

\* a self message dropped by a bot that has handled another event before
C17_Witness ==
    /\ call.op = "handle_message"
    /\ call.outcome = "self"
    /\ dedupe # EmptyDict
    /\ sessions # EmptyDict
    /\ history_files # EmptyDict

(***************************************************************************)
(* A restart: the process ends and a new WxAutoBot is built on the same    *)
(* storage directory (bot.py:25-37, storage.py:19-29).                     *)
(***************************************************************************)
\* the mutant starts from an empty index whatever the file holds
_load_nothing(file) == EmptyDict

\* SessionIndex.__init__ and _load: the sessions of the index file, none if
\* there is no file
_load(file) == IF file.exists THEN file.sessions ELSE EmptyDict

\* the in-memory state of the bot
Memory ==
    [ dedupe           |-> dedupe,
      session_cooldown |-> session_cooldown,
      user_cooldown    |-> user_cooldown,
      failure_tracker  |-> failure_tracker,
      vision_cache     |-> vision_cache ]

\* call.lost is the in-memory state that ended with the old process; a
\* restart counts as one of the MaxEvents events
Restart ==
    /\ ncalls < MaxEvents
    /\ ncalls' = ncalls + 1
    /\ dedupe' = EmptyDict
    /\ session_cooldown' = EmptyDict
    /\ user_cooldown' = EmptyDict
    /\ failure_tracker' = [failures |-> EmptyDict, cooldowns |-> EmptyDict]
    /\ vision_cache' = EmptyDict
    /\ sessions' = _load(index_file)
    /\ call' = [op |-> "restart", lost |-> Memory]
    /\ UNCHANGED <<now, config, index_file, history_files, image_files,
                   prev, accepted, streak>>

NextRestart == NextBot \/ Restart

SpecRestart == InitBot /\ [][NextRestart]_vars

\* what handle_message would do with msg on a bot with the in-memory state
\* memory and the present store
OutcomeWith(memory, msg, llm) ==
    handle_message([Bot EXCEPT !.dedupe = memory.dedupe,
                               !.session_cooldown = memory.session_cooldown,
                               !.user_cooldown = memory.user_cooldown,
                               !.failure_tracker = memory.failure_tracker,
                               !.vision_cache = memory.vision_cache],
                   config, msg, llm, now).outcome

RateLimited == {"duplicate", "blocked", "session_cooldown", "user_cooldown"}

\* C18 (what survives): a restart leaves the index file and every history
\* and image file as they are; the new index resolves every (scope, key)
\* seen before to the id it had, without a change to the index; every
\* load_history gives the sequence it gave before.
C18_RestartKeepsStore ==
    [][ call'.op = "restart" =>
          /\ UNCHANGED <<index_file, history_files, image_files>>
          /\ \A sk \in DOMAIN sessions :
                LET again == get_or_create(sessions', index_file',
                                           sessions[sk].scope,
                                           sessions[sk].key, "renamed")
                IN  /\ again.ret = sessions[sk].id
                    /\ again.sessions = sessions
                    /\ again.file = index_file
          /\ \A path \in DOMAIN history_files :
                load_history_path(history_files', path)
                  = load_history_path(history_files, path)
      ]_vars

\* C18 (what does not survive): after a restart the dedupe cache, both
\* cooldown managers, the failure tracker and the image-reply cache are
\* empty, so no event is turned down as a duplicate, as blocked or as
\* cooling down.
C18_RestartClearsMemory ==
    call.op = "restart" =>
       /\ dedupe = EmptyDict
       /\ session_cooldown = EmptyDict
       /\ user_cooldown = EmptyDict
       /\ failure_tracker = [failures |-> EmptyDict, cooldowns |-> EmptyDict]
       /\ vision_cache = EmptyDict
       /\ \A msg \in Messages, llm \in LlmOutcomes :
             OutcomeWith(Memory, msg, llm) \notin RateLimited

\* C18: both parts
C18_RestartKeepsStoreClearsMemory ==
    C18_RestartKeepsStore /\ []C18_RestartClearsMemory

\* a restart of a bot with sessions and history on disk, which would have
\* turned down one event as a duplicate and another because its session
\* was blocked
C18_Witness ==
    /\ call.op = "restart"
    /\ sessions # EmptyDict
    /\ history_files # EmptyDict
    /\ \E msg \in Messages, llm \in LlmOutcomes :
          OutcomeWith(call.lost, msg, llm) = "duplicate"
    /\ \E msg \in Messages, llm \in LlmOutcomes :
          OutcomeWith(call.lost, msg, llm) = "blocked"

(***************************************************************************)
(* storage.py: two threads in SessionIndex.get_or_create on one index,     *)
(* for the same (scope, key) that the index does not hold. The code takes  *)
(* no lock; a thread may be preempted between any two statements.          *)
(* call.threads[t] is the position and the locals of thread t.             *)
(***************************************************************************)
Threads == {1, 2}

\* the mutant derives the id from the display name as well
new_entry_named(scope, key, display_name) ==
    [id |-> sha1_hex16(SessionKey(scope, key) \o display_name),
     display_name |-> display_name, scope |-> scope, key |-> key]

\* storage.py:43-49: the entry of a new session
new_entry(scope, key, display_name) ==
    [id |-> sha1_hex16(SessionKey(scope, key)),
     display_name |-> display_name, scope |-> scope, key |-> key]

\* the length of json.dumps(data), up to what is the same for all data with
\* the same keys
DumpSize(data) ==
    LET keys == DOMAIN data
        RECURSIVE Sum(_)
        Sum(ks) == IF ks = {} THEN 0
                   ELSE LET k == CHOOSE x \in ks : TRUE
                        IN  Len(data[k].display_name) + Sum(ks \ {k})
    IN  Sum(keys)

\* Path.write_text opens the file with mode "w", which empties it
open_w(file) ==
    [exists |-> TRUE, sessions |-> EmptyDict, size |-> 0, whole |-> FALSE]

\* and writes the text at offset 0: over a longer text that another writer
\* has put there since, the tail of that text stays and the file is not
\* JSON any more
write_text(file, data) ==
    IF file.size > DumpSize(data)
    THEN [exists |-> TRUE, sessions |-> EmptyDict, size |-> file.size,
          whole |-> FALSE]
    ELSE [exists |-> TRUE, sessions |-> data, size |-> DumpSize(data),
          whole |-> TRUE]

ThreadAt(t, pc) == call.op = "get_or_create" /\ call.threads[t].pc = pc

\* storage.py:39-42
Lookup(t) ==
    /\ ThreadAt(t, "lookup")
    /\ LET session_key == SessionKey(call.scope, call.key)
       IN  call' = [call EXCEPT !.threads[t] =
                      IF session_key \in DOMAIN sessions
                      THEN [@ EXCEPT !.pc = "done",
                                     !.ret = sessions[session_key].id]
                      ELSE [@ EXCEPT !.pc = "create"]]
    /\ UNCHANGED <<now, config, memVars, storeVars, ghostVars>>

\* storage.py:43-49
Create(t) ==
    /\ ThreadAt(t, "create")
    /\ LET entry == new_entry(call.scope, call.key,
                              call.threads[t].display_name)
       IN  /\ sessions' = Put(sessions, SessionKey(call.scope, call.key),
                              entry)
           /\ call' = [call EXCEPT !.threads[t].pc = "dump",
                                   !.threads[t].session_id = entry.id]
    /\ UNCHANGED <<now, config, memVars, index_file, history_files,
                   image_files, ghostVars>>

\* storage.py:33: json.dumps(self.data)
Dump(t) ==
    /\ ThreadAt(t, "dump")
    /\ call' = [call EXCEPT !.threads[t].pc = "open",
                            !.threads[t].dumped = sessions]
    /\ UNCHANGED <<now, config, memVars, storeVars, ghostVars>>

\* storage.py:32: write_text opens the file
OpenIndex(t) ==
    /\ ThreadAt(t, "open")
    /\ index_file' = open_w(index_file)
    /\ call' = [call EXCEPT !.threads[t].pc = "write"]
    /\ UNCHANGED <<now, config, memVars, sessions, history_files,
                   image_files, ghostVars>>

\* storage.py:32-35 and 50-51: write_text writes, get_or_create returns
WriteIndex(t) ==
    /\ ThreadAt(t, "write")
    /\ index_file' = write_text(index_file, call.threads[t].dumped)
    /\ call' = [call EXCEPT !.threads[t].pc = "done",
                            !.threads[t].ret = call.threads[t].session_id]
    /\ UNCHANGED <<now, config, memVars, sessions, history_files,
                   image_files, ghostVars>>

\* an index with or without another session, saved, and two calls for one
\* (scope, key) it does not hold
InitConcurrent ==
    /\ InitMemory
    /\ InitObserved
    /\ config = DefaultConfig
    /\ history_files = EmptyDict
    /\ image_files = EmptyDict
    /\ \E scope \in Scopes, key \in SessionKeys, other \in SessionKeys :
          /\ sessions = IF other = key THEN EmptyDict
                        ELSE Put(EmptyDict, SessionKey(scope, other),
                                 new_entry(scope, other, "Bob"))
          /\ index_file = IF sessions = EmptyDict
                          THEN [exists |-> FALSE, sessions |-> EmptyDict,
                                size |-> 0, whole |-> FALSE]
                          ELSE write_text(open_w(index_file), sessions)
          /\ \E names \in [Threads -> DisplayNames] :
                call = [op |-> "get_or_create", scope |-> scope, key |-> key,
                        threads |->
                           [t \in Threads |->
                              [pc |-> "lookup",
                               display_name |-> names[t],
                               session_id |-> "", dumped |-> EmptyDict,
                               ret |-> ""]]]

NextConcurrent ==
    \E t \in Threads :
        \/ Lookup(t)
        \/ Create(t)
        \/ Dump(t)
        \/ OpenIndex(t)
        \/ WriteIndex(t)

SpecConcurrent == InitConcurrent /\ [][NextConcurrent]_vars

\* the sessions the index holds for the (scope, key) of the calls
EntriesForKey ==
    {sk \in DOMAIN sessions :
        sessions[sk].scope = call.scope /\ sessions[sk].key = call.key}

\* C19: in every interleaving of the two calls, the ids the calls have
\* allocated or returned so far are the same one id; once a call has
\* created the session the index holds exactly one entry for the key, with
\* that id, and when both calls have returned they have returned that id.
C19_OneIdUnderInterleaving ==
    call.op = "get_or_create" =>
       LET ids == {call.threads[t].session_id : t \in Threads}
                    \cup {call.threads[t].ret : t \in Threads}
           used == ids \ {""}
       IN  /\ Cardinality(used) <= 1
           /\ used # {} =>
                 /\ Cardinality(EntriesForKey) = 1
                 /\ \A sk \in EntriesForKey : sessions[sk].id \in used
           /\ (\A t \in Threads : call.threads[t].pc = "done") =>
                 /\ call.threads[1].ret = call.threads[2].ret
                 /\ call.threads[1].ret # ""
                 /\ index_file.whole =>
                       \A sk \in EntriesForKey :
                          /\ sk \in DOMAIN index_file.sessions
                          /\ index_file.sessions[sk].id = sessions[sk].id

\* both calls found the key missing, both created the session and both
\* have returned
C19_Witness ==
    /\ call.op = "get_or_create"
    /\ \A t \in Threads :
          call.threads[t].pc = "done" /\ call.threads[t].session_id # ""
    /\ call.threads[1].display_name # call.threads[2].display_name

(***************************************************************************)
(* bot.py: handle_message for an event during which a write of the store   *)
(* fails (OSError of mkdir, open or write in storage.py:65-71, 89-116).     *)
(***************************************************************************)
Faults == {"save_image", "append_history"}

\* the event has an image to save
HasImage(msg) ==
    msg.msg_type = "image" /\ msg.image_bytes # "" /\ msg.image_mime # << >>

\* what the model client would answer if handle_message got as far as
\* calling it
LateAnswer == [ok |-> TRUE, text |-> " Sure, here you are. "]

\* the write named by fault fails if handle_message comes to it (only an
\* event with an image comes to save_image)
HandleMessageFailing(msg, llm, fault) ==
    /\ ncalls < MaxEvents
    /\ fault = "save_image" => HasImage(msg)
    /\ ncalls' = ncalls + 1
    /\ Returned(msg, handle_message([Bot EXCEPT !.fault = fault], config, msg,
                                    llm, now))
    /\ UNCHANGED <<now, config, prev, accepted, streak>>

NextStorageFailure ==
    \/ NextBot
    \/ \E msg \in Messages, fault \in Faults :
          HandleMessageFailing(msg, LateAnswer, fault)

SpecStorageFailure == InitBot /\ [][NextStorageFailure]_vars

\* the failing write is reached: the event is not dropped before it, and it
\* has an image if the write is that of the image
WriteFails(c) ==
    /\ c.op = "handle_message"
    /\ c.fault # "none"
    /\ c.outcome \notin {"self", "duplicate", "blocked"}
    /\ c.fault = "save_image" => HasImage(c.msg)

\* C20: when the write of the image or of the inbound record fails, the
\* error leaves handle_message: nothing after the write runs, so there is
\* no model call, no send and no sent record, the inbound record is not in
\* the log, and both cooldown managers and the failure tracker are
\* unchanged.
C20_StorageFailureSurfaces ==
    [][ WriteFails(call') =>
          /\ call'.outcome = "raised"
          /\ call'.effects[Len(call'.effects)] = Effect("raised", call'.fault)
          /\ CountEffects(call', "client.send") = 0
          /\ CountEffects(call', "adapter.send_text") = 0
          /\ CountEffects(call', "append_history") = 0
          /\ call'.prompts = << >>
          /\ call'.sent = << >>
          /\ history_files' = history_files
          /\ session_cooldown' = session_cooldown
          /\ user_cooldown' = user_cooldown
          /\ failure_tracker' = failure_tracker
      ]_vars

\* the write of the inbound record fails for an image event that would
\* have got a reply: the image is on disk, the record is not
C20_Witness ==
    /\ call.op = "handle_message"
    /\ call.outcome = "raised"
    /\ call.fault = "append_history"
    /\ HasImage(call.msg)
    /\ _should_trigger(config, call.msg)
    /\ image_files # EmptyDict
    /\ history_files = EmptyDict

(***************************************************************************)
(* bot.py: the image-reply cache (vision_cache)                            *)
(***************************************************************************)
\* vision on for both scopes or for groups only, cooldowns of one second;
\* in the third the model's own maximum is the smaller cap of both scopes,
\* in the fourth the budget leaves tokens for the prompt in groups only,
\* in the last private chats get a fixed reply
VisionConfigs ==
    { [DefaultConfig EXCEPT !.session_cooldown_seconds = 1,
                            !.user_cooldown_seconds = 1],
      [DefaultConfig EXCEPT !.session_cooldown_seconds = 1,
                            !.user_cooldown_seconds = 1,
                            !.vision_enable_private = FALSE],
      [DefaultConfig EXCEPT !.session_cooldown_seconds = 1,
                            !.user_cooldown_seconds = 1,
                            !.api_max_output_tokens = 1],
      [DefaultConfig EXCEPT !.session_cooldown_seconds = 1,
                            !.user_cooldown_seconds = 1,
                            !.token_budget = 3],
      [DefaultConfig EXCEPT !.session_cooldown_seconds = 1,
                            !.user_cooldown_seconds = 1,
                            !.private_fixed_reply = "away"] }

\* one picture sent privately, sent again under a new message id, sent to
\* a group with a mention by another sender, another picture, and a text
VisionMessages ==
    { [TextMessage("m5", 8, "u2", "Bob", "") EXCEPT
          !.msg_type = "image", !.image_bytes = "AB",
          !.image_mime = <<"image", "png">>],
      [TextMessage("m9", 9, "u2", "Bob", "again") EXCEPT
          !.msg_type = "image", !.image_bytes = "AB",
          !.image_mime = <<"image", "png">>],
      [TextMessage("m8", 9, "u1", "Alice", "@bot look") EXCEPT
          !.msg_type = "image", !.image_bytes = "AB",
          !.image_mime = <<"image", "jpeg">>,
          !.is_group = TRUE, !.group_id = "g1", !.group_name = "Team",
          !.is_at = TRUE],
      [TextMessage("m10", 9, "u1", "Alice", "") EXCEPT
          !.msg_type = "image", !.image_bytes = "XYZ",
          !.image_mime = <<"image", "png">>],
      TextMessage("m1", 95, "u1", "Alice", "hello") }

InitVision ==
    /\ InitMemory
    /\ InitDisk
    /\ InitObserved
    /\ call = NoCall
    /\ config \in VisionConfigs

NextVision ==
    \/ EventTick
    \/ \E msg \in VisionMessages, llm \in LlmOutcomes : HandleMessage(msg, llm)

SpecVision == InitVision /\ [][NextVision]_vars

\* the event is an image that the vision setting of its scope lets through
VisionOn(c) ==
    /\ HasImage(c.msg)
    /\ IF c.msg.is_group THEN config.vision_enable_group /\ c.msg.is_at
                          ELSE config.vision_enable_private

\* the output-token cap of the scope of the event
OutputCap(c) ==
    IF c.msg.is_group
    THEN Min(config.max_group_output_tokens, config.api_max_output_tokens)
    ELSE Min(config.max_private_output_tokens, config.api_max_output_tokens)

\* the event is an image whose bytes are in the image-reply cache when
\* reply generation looks at it
CacheHit ==
    /\ ReachedReply(call')
    /\ VisionOn(call')
    /\ ~AnsweredBeforeBudget(call')
    /\ PromptBudget(call') > 0
    /\ sha256_hex(call'.msg.image_bytes) \in DOMAIN vision_cache

\* the event is an image for which the model returned a reply that is not
\* blank
CacheFill ==
    /\ call'.op = "handle_message"
    /\ HasImage(call'.msg)
    /\ ModelAnswered(call')

\* C22: an image event that reaches reply generation (vision on, no fixed
\* reply, positive budget) with bytes whose SHA-256 is in the image-reply
\* cache gets no model call and no change of the failure tracker, and is
\* answered with the cached reply cut to the output cap of its own scope.
\* The cache gets an entry exactly when the model returned a reply that is
\* not blank for an image event, the entry being that reply stripped and
\* not cut; no other step changes the cache and no entry is ever replaced
\* or removed while the process runs.
C22_ImageReplyCache ==
    [][ /\ CacheHit =>
            /\ CountEffects(call', "client.send") = 0
            /\ call'.prompts = << >>
            /\ failure_tracker' = failure_tracker
            /\ Len(call'.sent) = 1
            /\ IsTruncationOf(call'.sent[1],
                              vision_cache[sha256_hex(call'.msg.image_bytes)],
                              OutputCap(call'))
        /\ CacheFill =>
            /\ sha256_hex(call'.msg.image_bytes) \notin DOMAIN vision_cache
            /\ vision_cache' = Put(vision_cache,
                                   sha256_hex(call'.msg.image_bytes),
                                   Strip(ModelOutput(call')))
        /\ ~CacheFill => vision_cache' = vision_cache
        /\ \A k \in DOMAIN vision_cache :
              k \in DOMAIN vision_cache' /\ vision_cache'[k] = vision_cache[k]
      ]_vars

\* a picture answered in a private chat is sent to a group: the cached
\* reply of 19 characters is cut to the group's cap of 2 tokens, and the
\* model is not called
C22_Witness ==
    /\ call.op = "handle_message"
    /\ call.msg.is_group
    /\ HasImage(call.msg)
    /\ call.outcome = "replied"
    /\ CountEffects(call, "client.send") = 0
    /\ sha256_hex(call.msg.image_bytes) \in DOMAIN vision_cache
    /\ Len(vision_cache[sha256_hex(call.msg.image_bytes)]) = 19
    /\ config.max_group_output_tokens < config.max_private_output_tokens
    /\ Len(call.sent) = 1
    /\ Len(call.sent[1]) = 4 * config.max_group_output_tokens
    /\ \E path \in DOMAIN history_files :
          \E i \in DOMAIN history_files[path] :
             /\ history_files[path][i].value.direction = "sent"
             /\ Len(history_files[path][i].value.content)
                   = 4 * config.max_private_output_tokens

\* the reply of the event comes from the model: from a call made for this
\* event, or from the image-reply cache
FromModel == ModelAnswered(call') \/ CacheHit

\* C26: every reply handed to the adapter that comes from model output,
\* fresh or from the image-reply cache, has an estimated token count of at
\* most the reserved output tokens of the scope of its session, that is
\* min(max_group_output_tokens, api.max_output_tokens) for a group and
\* min(max_private_output_tokens, api.max_output_tokens) for a private
\* session; and such a reply exists only when token_budget minus that same
\* value, the prompt budget, is positive.
C26_ReplyWithinOutputCap ==
    [][ (ReachedReply(call') /\ FromModel) =>
          /\ \A i \in DOMAIN call'.effects :
                call'.effects[i].op = "adapter.send_text" =>
                  estimate_tokens(call'.effects[i].arg) <= OutputCap(call')
          /\ \A i \in DOMAIN call'.sent :
                estimate_tokens(call'.sent[i]) <= OutputCap(call')
          /\ config.token_budget - OutputCap(call') > 0
      ]_vars

\* a group reply cut to the model's own maximum, which is below the cap
\* configured for groups
C26_Witness ==
    /\ ReachedReply(call)
    /\ call.msg.is_group
    /\ ModelAnswered(call)
    /\ config.api_max_output_tokens < config.max_group_output_tokens
    /\ Len(call.sent) = 1
    /\ estimate_tokens(call.sent[1]) = config.api_max_output_tokens
    /\ estimate_tokens(Strip(ModelOutput(call))) > config.max_group_output_tokens

(***************************************************************************)
(* bot.py: replies sent and replies recorded                               *)
(***************************************************************************)
\* the texts the event of the step handed to adapter.send_text, in order
TextsSent ==
    LET sends == SelectSeq(call'.effects,
                           LAMBDA e : e.op = "adapter.send_text")
    IN  [i \in DOMAIN sends |-> sends[i].arg]

\* the records the step appended to the log at path
Appended(path) ==
    LET before == load_history_path(history_files, path)
        after == load_history_path(history_files', path)
    IN  SubSeq(after, Len(before) + 1, Len(after))

\* the contents of the sent records the step appended to the log at path
SentRecorded(path) ==
    LET sent == SelectSeq(Appended(path),
                          LAMBDA record : record.direction = "sent")
    IN  [i \in DOMAIN sent |-> sent[i].content]

\* in the effects of the event every send is followed at once by the
\* append of a sent record, and every such append follows a send
SendThenRecord ==
    \A i \in DOMAIN call'.effects :
       /\ call'.effects[i].op = "adapter.send_text" =>
             /\ i < Len(call'.effects)
             /\ call'.effects[i + 1] = Effect("append_history", "sent")
       /\ call'.effects[i] = Effect("append_history", "sent") =>
             /\ i > 1
             /\ call'.effects[i - 1].op = "adapter.send_text"

\* C31: whatever handle_message hands to adapter.send_text (a model reply,
\* a cached image reply, a fixed reply, the fallback) is followed by the
\* append of exactly one record of direction sent with the same content to
\* the log of the session of the event; no sent record is appended to any
\* log without such a send before it; a text handed over is never empty,
\* and an event without a reply makes neither a send nor a sent record.
C31_SentIffRecorded ==
    [][ /\ call'.op = "handle_message" /\ call'.session # None =>
            LET session == call'.session[1]
                path == history_path(session.scope, session.session_id)
            IN  /\ Len(TextsSent) <= 1
                /\ \A i \in DOMAIN TextsSent : TextsSent[i] # ""
                /\ call'.sent = TextsSent
                /\ SentRecorded(path) = TextsSent
                /\ SendThenRecord
                /\ \A other \in DOMAIN history_files' \ {path} :
                      SentRecorded(other) = << >>
        /\ ~(call'.op = "handle_message" /\ call'.session # None) =>
            \A path \in DOMAIN history_files' : SentRecorded(path) = << >>
      ]_vars

\* the fixed reply of private chats, sent for a picture without a model
\* call and written down as the last record of the session
C31_Witness ==
    /\ call.op = "handle_message"
    /\ HasImage(call.msg)
    /\ config.private_fixed_reply # ""
    /\ call.sent = <<config.private_fixed_reply>>
    /\ CountEffects(call, "client.send") = 0
    /\ CountEffects(call, "adapter.send_text") = 1
    /\ LET log == load_history(history_files, call.session[1].scope,
                               call.session[1].session_id)
       IN  /\ Len(log) = 2
           /\ log[1].direction = "received"
           /\ log[2].direction = "sent"
           /\ log[2].content = config.private_fixed_reply

(***************************************************************************)
(* bot.py: the order of the two cooldowns                                  *)
(***************************************************************************)
\* the event of the step is triggered and gets as far as the cooldowns
ReachesCooldowns ==
    /\ call'.op = "handle_message"
    /\ call'.outcome \notin {"self", "duplicate", "blocked", "raised"}
    /\ _should_trigger(config, call'.msg)

\* less than the session cooldown has passed since the session last passed
SessionCooling ==
    now - Get(session_cooldown, call'.session[1].session_id, 0)
        < config.session_cooldown_seconds

\* less than the sender cooldown has passed since the sender last passed
SenderCooling ==
    now - Get(user_cooldown, call'.msg.sender_id, 0)
        < config.user_cooldown_seconds

\* no reply is generated for the event of the step
NoReply ==
    /\ CountEffects(call', "client.send") = 0
    /\ CountEffects(call', "adapter.send_text") = 0
    /\ call'.prompts = << >>
    /\ call'.sent = << >>
    /\ vision_cache' = vision_cache
    /\ failure_tracker' = failure_tracker

\* C28: the session cooldown is asked before the sender cooldown and its
\* answer is final for the session's timestamp: an event the session
\* cooldown lets pass and the sender cooldown rejects gets no reply, the
\* session's timestamp is now all the same and the sender's timestamp is
\* as it was; an event the session cooldown rejects leaves both cooldowns
\* as they were, the sender cooldown is not asked.
C28_SessionCooldownFirst ==
    [][ ReachesCooldowns =>
          /\ SessionCooling =>
                /\ call'.outcome = "session_cooldown"
                /\ NoReply
                /\ session_cooldown' = session_cooldown
                /\ user_cooldown' = user_cooldown
          /\ (~SessionCooling /\ SenderCooling) =>
                /\ call'.outcome = "user_cooldown"
                /\ NoReply
                /\ session_cooldown' =
                      Put(session_cooldown, call'.session[1].session_id, now)
                /\ user_cooldown' = user_cooldown
      ]_vars

\* a sender answered in a private chat mentions the bot in a group within
\* the sender cooldown: no reply, and the group's session cooldown runs
C28_Witness ==
    /\ call.op = "handle_message"
    /\ call.outcome = "user_cooldown"
    /\ call.msg.is_group
    /\ call.session[1].session_id \in DOMAIN session_cooldown
    /\ session_cooldown[call.session[1].session_id] = call.at
    /\ call.msg.sender_id \in DOMAIN user_cooldown
    /\ call.at - user_cooldown[call.msg.sender_id]
          < config.user_cooldown_seconds
    /\ Cardinality(DOMAIN session_cooldown) = 2

(***************************************************************************)
(* bot.py: the event being answered in its own prompt                      *)
(***************************************************************************)
\* private texts with and without a message id, the same words under both,
\* and a mention in a group without a message id
PromptMessages ==
    { TextMessage("", 5, "u1", "Alice", "hello"),
      TextMessage("m1", 95, "u1", "Alice", "hello"),
      TextMessage("m2", 3, "u1", "Al", "Help me"),
      [TextMessage("", 7, "u2", "Bob", "@bot hi") EXCEPT
          !.is_group = TRUE, !.group_id = "g1", !.group_name = "Team",
          !.is_at = TRUE] }

InitPrompt ==
    /\ InitMemory
    /\ InitDisk
    /\ InitObserved
    /\ call = NoCall
    /\ config = [DefaultConfig EXCEPT !.session_cooldown_seconds = 1,
                                      !.user_cooldown_seconds = 1]

NextPrompt ==
    \/ EventTick
    \/ \E msg \in PromptMessages, llm \in LlmOutcomes : HandleMessage(msg, llm)

SpecPrompt == InitPrompt /\ [][NextPrompt]_vars

IsSuffix(a, b) ==
    Len(a) <= Len(b) /\ SubSeq(b, Len(b) - Len(a) + 1, Len(b)) = a

\* the entries of a prompt between the system message and the new message
HistoryEntries(prompt) == SubSeq(prompt, 2, Len(prompt) - 1)

\* the log of the session of the event of the step as it was before the
\* event, as prompt messages; with the records that bear the id of the
\* event left out when skipping
LogBefore(skipping) ==
    LET session == call'.session[1]
        before == load_history(history_files, session.scope,
                               session.session_id)
    IN  _history_to_messages(
            IF skipping
            THEN SelectSeq(before,
                           LAMBDA record :
                               record.message_id # call'.msg.message_id)
            ELSE before)

\* the prompt of the step ends with the new message and its history
\* entries are records the log held before the event arrived
OwnRecordNotInPrompt ==
    LET prompt == call'.prompts[1]
    IN  /\ Len(prompt) >= 2
        /\ prompt[1].role = "system"
        /\ IsCutOf(prompt[Len(prompt)],
                   _build_latest_message(call'.msg, None)[1])
        /\ \/ IsSuffix(HistoryEntries(prompt), LogBefore(FALSE))
           \/ IsSuffix(HistoryEntries(prompt), LogBefore(TRUE))

\* C29: in the prompt handed to the model for an event, with or without a
\* message id, the event appears once, as the last message: the history
\* entries of the prompt are records that were in the session's log before
\* the event, and the record appended for the event itself is not among
\* them.
C29_EventOnceInPrompt ==
    [][ (call'.op = "handle_message" /\ call'.prompts # << >>)
        => OwnRecordNotInPrompt ]_vars

\* what the code does keep: the same for the events that have a message id
EventWithIdOnceInPrompt ==
    [][ ( /\ call'.op = "handle_message"
          /\ call'.prompts # << >>
          /\ call'.msg.message_id # "" )
        => OwnRecordNotInPrompt ]_vars

(***************************************************************************)
(* bot.py: events that arrive while their session is blocked               *)
(***************************************************************************)
\* one more event than MaxEvents: the exchange that opens the block, the
\* event that meets it, and its redelivery
MaxDeliveries == MaxEvents + 1

\* one failed call blocks the session, for a time shorter than the dedupe
\* window
BlockingConfig ==
    [DefaultConfig EXCEPT !.max_failures = 1, !.failure_cooldown = 1]

\* a text and a picture of one sender in a private chat
BlockedMessages ==
    { TextMessage("m2", 3, "u1", "Al", "Help me"),
      [TextMessage("m6", 4, "u1", "Al", "") EXCEPT
          !.msg_type = "image", !.image_bytes = "AB",
          !.image_mime = <<"image", "png">>] }

\* main.py:24-27, as HandleMessage; prev keeps the event handled before
Deliver(msg, llm) ==
    /\ ncalls < MaxDeliveries
    /\ ncalls' = ncalls + 1
    /\ prev' = IF call.op = "handle_message" THEN call ELSE prev
    /\ Returned(msg, handle_message(Bot, config, msg, llm, now))
    /\ UNCHANGED <<now, config, accepted, streak>>

\* time passes between two events; prev keeps the event handled before
DeliveryTick ==
    /\ now < Epoch + MaxEventTicks
    /\ now' = now + 1
    /\ prev' = IF call.op = "handle_message" THEN call ELSE prev
    /\ call' = [op |-> "tick"]
    /\ UNCHANGED <<config, memVars, storeVars, ncalls, accepted, streak>>

InitBlocked ==
    /\ InitMemory
    /\ InitDisk
    /\ InitObserved
    /\ call = NoCall
    /\ config = BlockingConfig

NextBlocked ==
    \/ DeliveryTick
    \/ \E msg \in BlockedMessages, llm \in LlmOutcomes : Deliver(msg, llm)

SpecBlocked == InitBlocked /\ [][NextBlocked]_vars

\* the key the dedupe cache knows the event by
UniqueKey(msg) ==
    IF msg.message_id # "" THEN msg.message_id
    ELSE _hash_content(msg)

\* the event of the step is new to the dedupe cache and the failure
\* tracker blocks its session when it arrives
ArrivesWhileBlocked ==
    /\ call'.op = "handle_message"
    /\ call'.outcome \notin {"self", "duplicate"}
    /\ LET sid == call'.session[1].session_id
       IN  /\ sid \in DOMAIN failure_tracker.cooldowns
           /\ now < failure_tracker.cooldowns[sid]

\* the event of the step is the one handled before it, which had met a
\* block, and comes again within the dedupe window
RedeliveredAfterBlock ==
    /\ call'.op = "handle_message"
    /\ prev'.op = "handle_message"
    /\ prev'.outcome = "blocked"
    /\ prev'.msg = call'.msg
    /\ call'.at - prev'.at <= config.dedupe_window

\* the step writes nothing to the store but the session index, calls
\* nothing and sends nothing
NothingRecorded ==
    /\ history_files' = history_files
    /\ image_files' = image_files
    /\ CountEffects(call', "save_image") = 0
    /\ CountEffects(call', "append_history") = 0
    /\ CountEffects(call', "client.send") = 0
    /\ call'.sent = << >>
    /\ session_cooldown' = session_cooldown
    /\ user_cooldown' = user_cooldown
    /\ failure_tracker' = failure_tracker

\* C27: an event that arrives while the failure tracker blocks its session
\* is dropped with its dedupe key inserted and nothing else done: no image
\* saved, no received record appended; and when the same event is
\* delivered again within the dedupe window it is dropped as a duplicate,
\* again unrecorded, whether or not the block has run out by then.
C27_BlockedEventIsLost ==
    [][ /\ ArrivesWhileBlocked =>
            /\ call'.outcome = "blocked"
            /\ NothingRecorded
            /\ UniqueKey(call'.msg) \in DOMAIN dedupe'
            /\ dedupe'[UniqueKey(call'.msg)] = now
        /\ RedeliveredAfterBlock =>
            /\ call'.outcome = "duplicate"
            /\ NothingRecorded
      ]_vars

\* a picture that met the block comes again after the block has run out
\* and is dropped as a duplicate: neither its file nor its record exists
C27_Witness ==
    /\ call.op = "handle_message"
    /\ call.outcome = "duplicate"
    /\ prev.op = "handle_message"
    /\ prev.outcome = "blocked"
    /\ prev.msg = call.msg
    /\ HasImage(call.msg)
    /\ prev.at < call.at
    /\ ~Blocked(call.session[1].session_id)
    /\ image_files = EmptyDict
    /\ \A path \in DOMAIN history_files :
          \A i \in DOMAIN history_files[path] :
             history_files[path][i].value.message_id # call.msg.message_id

(***************************************************************************)
(* core/platforms/openai_platform.py: OpenAIPlatform                       *)
(* In the specification of this section the variable config holds the      *)
(* platform object (its settings and _initialized) and call the last       *)
(* process_message call.  A chat message is [role, content]; an HTTP       *)
(* exchange is [kind, content] with kind "ok" (status 200, content the      *)
(* text of the first choice), "status" (another status) or "raise"         *)
(* (the request or the decoding of the answer raised).                     *)
(***************************************************************************)
ChatMessage(role, content) == [role |-> role, content |-> content]

RECURSIVE TotalChars(_)
TotalChars(messages) ==
    IF messages = << >> THEN 0
    ELSE Len(Head(messages).content) + TotalChars(Tail(messages))

\* max(1, total_chars // 4)
_estimate_tokens(messages) == Max(1, TotalChars(messages) \div 4)

\* the request body posted to /chat/completions
RequestBody(messages, temperature, max_tokens) ==
    [messages |-> messages, temperature |-> temperature,
     max_tokens |-> max_tokens]

\* the mutant takes the content of the answer as it comes
_summarize_history_unstripped(platform, history_messages, http) ==
    LET request == RequestBody(<<ChatMessage("system",
                                             platform.summary_prompt)>>
                                 \o history_messages,
                               "0.2", Min(512, platform.max_tokens))
    IN  [request |-> request,
         ret |-> IF http.kind = "ok" /\ http.content # ""
                 THEN Some(ChatMessage("assistant", http.content))
                 ELSE None]

\* the summary call and its result: None for {}, Some(message) otherwise
_summarize_history(platform, history_messages, http) ==
    LET request == RequestBody(<<ChatMessage("system",
                                             platform.summary_prompt)>>
                                 \o history_messages,
                               "0.2", Min(512, platform.max_tokens))
    IN  [request |-> request,
         ret |-> IF http.kind = "ok" /\ Strip(http.content) # ""
                 THEN Some(ChatMessage("assistant", Strip(http.content)))
                 ELSE None]

\* the messages of one row of the messages table
RowMessages(item) ==
    (IF Strip(item.content) # ""
     THEN <<ChatMessage("user", Strip(item.content))>> ELSE << >>)
    \o (IF Strip(item.reply_content) # ""
        THEN <<ChatMessage("assistant", Strip(item.reply_content))>>
        ELSE << >>)

RECURSIVE ReversedRowMessages(_)
ReversedRowMessages(history) ==
    IF history = << >> THEN << >>
    ELSE ReversedRowMessages(Tail(history)) \o RowMessages(Head(history))

\* rows is what the query returns: the answered rows of the chat, newest
\* first, history_limit at most
_load_history_messages(platform, message, rows) ==
    IF platform.history_limit <= 0 THEN << >>
    ELSE IF message.instance_id = "" \/ message.chat_name = "" THEN << >>
    ELSE ReversedRowMessages(rows)

\* what process_message returns and the requests it posted, in order
Processed(platform, ret, requests) ==
    [platform |-> platform, ret |-> ret, requests |-> requests]

\* openai_platform.py:122-184: the new message is appended and the
\* completion request is posted
complete(platform, messages, message, posted, http) ==
    LET request == RequestBody(Append(messages,
                                      ChatMessage("user", message.content)),
                               platform.temperature, platform.max_tokens)
    IN  Processed(platform,
                  CASE http.kind = "ok" ->
                         [kind |-> "content", text |-> http.content]
                    [] http.kind = "status" ->
                         [kind |-> "error", text |-> "API"]
                    [] OTHER ->
                         [kind |-> "error", text |-> "exception"],
                  Append(posted, request))

\* the mutant sends the summary whatever its size
compact_oversized(platform, history_messages, message, summary, main_http) ==
    LET system == ChatMessage("system", platform.system_prompt)
    IN  IF summary.ret = None
        THEN complete(platform, <<system>> \o history_messages, message,
                      <<summary.request>>, main_http)
        ELSE complete(platform, <<system, summary.ret[1]>>, message,
                      <<summary.request>>, main_http)

\* openai_platform.py:109-120: what is done with the result of the
\* summary call
compact(platform, history_messages, message, summary, main_http) ==
    LET system == ChatMessage("system", platform.system_prompt)
        compact_tokens ==
            _estimate_tokens(<<system, summary.ret[1]>>)
              + _estimate_tokens(<<ChatMessage("user", message.content)>>)
              + platform.max_tokens
    IN  IF summary.ret = None
        THEN complete(platform, <<system>> \o history_messages, message,
                      <<summary.request>>, main_http)
        ELSE IF compact_tokens > platform.max_context_tokens
        THEN complete(platform, <<system>>, message, <<summary.request>>,
                      main_http)
        ELSE complete(platform, <<system, summary.ret[1]>>, message,
                      <<summary.request>>, main_http)

\* openai_platform.py:91-122 for the loaded history_messages
assemble(platform, history_messages, message, summary_http, main_http) ==
    LET system == ChatMessage("system", platform.system_prompt)
        total_tokens ==
            _estimate_tokens(<<system>> \o history_messages)
              + _estimate_tokens(<<ChatMessage("user", message.content)>>)
              + platform.max_tokens
    IN  IF ~platform.continuous_conversation \/ history_messages = << >>
        THEN complete(platform, <<system>>, message, << >>, main_http)
        ELSE IF total_tokens > platform.max_context_tokens
        THEN compact(platform, history_messages, message,
                     _summarize_history(platform, history_messages,
                                        summary_http),
                     main_http)
        ELSE complete(platform, <<system>> \o history_messages, message,
                      << >>, main_http)

\* initialize(): the platform is usable when it has an API key
initialize(platform) ==
    [platform EXCEPT !._initialized = platform.api_key # ""]

process_message(platform, message, rows, summary_http, main_http) ==
    LET ready == IF platform._initialized THEN platform
                 ELSE initialize(platform)
    IN  IF ~ready._initialized
        THEN Processed(ready, [kind |-> "error", text |-> "uninitialized"],
                       << >>)
        ELSE assemble(ready,
                      IF ready.continuous_conversation
                      THEN _load_history_messages(ready, message, rows)
                      ELSE << >>,
                      message, summary_http, main_http)

\* OpenAIPlatform.__init__ with tokens scaled down: the context ceiling of
\* 4096 tokens is 6 here, max_tokens 2, history_limit 2
DefaultPlatform ==
    [ api_key                 |-> "key",
      temperature             |-> "0.7",
      system_prompt           |-> "sys!",
      max_tokens              |-> 2,
      continuous_conversation |-> FALSE,
      summary_prompt          |-> "sum up",
      history_limit           |-> 2,
      max_context_tokens      |-> 6,
      _initialized            |-> FALSE ]

Platforms ==
    { DefaultPlatform,
      [DefaultPlatform EXCEPT !.continuous_conversation = TRUE],
      [DefaultPlatform EXCEPT !.continuous_conversation = TRUE,
                              !.api_key = ""] }

\* rows of the messages table: a short exchange, a long one, and a row
\* whose question is blank
Rows ==
    { [content |-> "hi", reply_content |-> " yo "],
      [content |-> "tell me a tale", reply_content |-> "once upon"],
      [content |-> " ", reply_content |-> "well"] }

\* what the query can return under LIMIT history_limit
RowLists ==
    UNION {[1..n -> Rows] : n \in 0..DefaultPlatform.history_limit}

PlatformMessages ==
    { [content |-> "ping", instance_id |-> "i1", chat_name |-> "c1"],
      [content |-> "what happened next", instance_id |-> "i1",
       chat_name |-> "c1"],
      [content |-> "ping", instance_id |-> "i1", chat_name |-> ""] }

\* what the summary call may do: a short summary, one that is too long, a
\* blank one, a non-success status, an exception
SummaryOutcomes ==
    { [kind |-> "ok", content |-> " gist "],
      [kind |-> "ok", content |-> "a summary as long as the talk"],
      [kind |-> "ok", content |-> "  "],
      [kind |-> "status", content |-> ""],
      [kind |-> "raise", content |-> ""] }

CompletionOutcomes ==
    { [kind |-> "ok", content |-> "fine"],
      [kind |-> "status", content |-> ""] }

\* one process_message call of the platform
ProcessMessage(message, rows, summary_http, main_http) ==
    LET r == process_message(config, message, rows, summary_http, main_http)
    IN  /\ ncalls < MaxEvents
        /\ ncalls' = ncalls + 1
        /\ config' = r.platform
        /\ call' = [op |-> "process_message", platform |-> config,
                    message |-> message,
                    history |-> _load_history_messages(config, message,
                                                       rows),
                    summary_http |-> summary_http,
                    ret |-> r.ret, requests |-> r.requests]
        /\ UNCHANGED <<now, memVars, storeVars, prev, accepted, streak>>

InitOpenAI ==
    /\ InitMemory
    /\ InitDisk
    /\ InitObserved
    /\ call = NoCall
    /\ config \in Platforms

NextOpenAI ==
    \E message \in PlatformMessages, rows \in RowLists,
       summary_http \in SummaryOutcomes, main_http \in CompletionOutcomes :
        ProcessMessage(message, rows, summary_http, main_http)

SpecOpenAI == InitOpenAI /\ [][NextOpenAI]_vars

\* the call ran with continuous conversation on and loaded a history that
\* is not empty
WithHistory(c) ==
    /\ c.op = "process_message"
    /\ c.platform.api_key # ""
    /\ c.platform.continuous_conversation
    /\ c.history # << >>

SystemOf(c) == ChatMessage("system", c.platform.system_prompt)

NewMessageOf(c) == ChatMessage("user", c.message.content)

\* estimate(system + history) + estimate(new message) + max_tokens
TotalEstimate(c) ==
    _estimate_tokens(<<SystemOf(c)>> \o c.history)
      + _estimate_tokens(<<NewMessageOf(c)>>) + c.platform.max_tokens

\* the same estimate with the summary in the place of the history
CompactEstimate(c, summary) ==
    _estimate_tokens(<<SystemOf(c), summary>>)
      + _estimate_tokens(<<NewMessageOf(c)>>) + c.platform.max_tokens

\* the summary call of c gave a summary: status 200 and a content that is
\* not blank
SummaryYielded(c) ==
    c.summary_http.kind = "ok" /\ Strip(c.summary_http.content) # ""

SummaryOf(c) == ChatMessage("assistant", Strip(c.summary_http.content))

\* the messages of the completion request, the last request of the call
SentMessages(c) == c.requests[Len(c.requests)].messages

DamagedLines ==
    { [valid |-> FALSE, value |-> "blank"],
      [valid |-> FALSE, value |-> "malformed"],
      [valid |-> FALSE, value |-> "undecodable"] }

\* the file object decodes the bytes it reads as UTF-8, errors strict
IsDecodable(line) == line.valid \/ line.value # "undecodable"

\* storage.py:73-87 with the decoding of the file: the loop `for line in
\* handle` raises UnicodeDecodeError, outside the try of line 83, when the
\* file holds bytes that are not UTF-8
load_history_read(files, scope, session_id) ==
    LET path == history_path(scope, session_id)
    IN  IF path \in DOMAIN files
           /\ \E i \in DOMAIN files[path] : ~IsDecodable(files[path][i])
        THEN [raised |-> TRUE, records |-> << >>]
        ELSE [raised |-> FALSE,
              records |-> load_history(files, scope, session_id)]

\* two records of a private session
LogRecords ==
    { [message_id |-> "r1", direction |-> "received", content |-> "hello"],
      [message_id |-> "r2", direction |-> "sent", content |-> "hi there"] }

LogLines == {json_dumps(record) : record \in LogRecords} \cup DamagedLines

\* store.load_history(scope, session_id)
LoadHistory(scope, session_id) ==
    LET r == load_history_read(history_files, scope, session_id)
    IN  /\ call' = [op |-> "load_history", scope |-> scope,
                    session_id |-> session_id,
                    lines |-> Get(history_files,
                                  history_path(scope, session_id), << >>),
                    exists |-> history_path(scope, session_id)
                                 \in DOMAIN history_files,
                    raised |-> r.raised, records |-> r.records]
        /\ UNCHANGED <<now, config, memVars, storeVars, ghostVars>>

\* store.append_history(scope, session_id, record)
AppendHistory(scope, session_id, record) ==
    /\ ncalls < MaxEvents
    /\ ncalls' = ncalls + 1
    /\ history_files' = append_history(history_files, scope, session_id,
                                       record)
    /\ call' = [op |-> "append_history", scope |-> scope,
                session_id |-> session_id, record |-> record]
    /\ UNCHANGED <<now, config, memVars, sessions, index_file, image_files,
                   prev, accepted, streak>>

\* the log of session s1 as earlier runs and damage left it: absent, or up
\* to MaxHistory lines, sound or damaged
InitHistory ==
    /\ InitMemory
    /\ InitObserved
    /\ call = NoCall
    /\ config = DefaultConfig
    /\ sessions = EmptyDict
    /\ index_file = [exists |-> FALSE, sessions |-> EmptyDict]
    /\ image_files = EmptyDict
    /\ \/ history_files = EmptyDict
       \/ \E n \in 0..MaxHistory : \E lines \in [1..n -> LogLines] :
             history_files = Put(EmptyDict, history_path("private", "s1"),
                                 lines)

NextHistory ==
    \/ \E session_id \in {"s1", "s2"} : LoadHistory("private", session_id)
    \/ \E record \in LogRecords : AppendHistory("private", "s1", record)

SpecHistory == InitHistory /\ [][NextHistory]_vars

\* the records of the sound lines, in the order of the lines
RECURSIVE WellFormedRecords(_)
WellFormedRecords(lines) ==
    IF lines = << >> THEN << >>
    ELSE (IF Head(lines).valid THEN <<Head(lines).value>> ELSE << >>)
         \o WellFormedRecords(Tail(lines))

\* C25: load_history never fails; it returns the records of the
\* well-formed lines of the session's log in the order of the lines,
\* whatever damaged or blank lines stand before, between or after them,
\* and the empty sequence for a session without a log.
C25_LoadHistorySkipsDamage ==
    call.op = "load_history" =>
        /\ ~call.raised
        /\ call.records = WellFormedRecords(call.lines)
        /\ ~call.exists => call.records = << >>

\* what the code does keep: the same, as long as every line of the log is
\* UTF-8 text
LoadHistorySkipsDecodableDamage ==
    (call.op = "load_history"
       /\ \A i \in DOMAIN call.lines : IsDecodable(call.lines[i]))
    => /\ ~call.raised
       /\ call.records = WellFormedRecords(call.lines)
       /\ ~call.exists => call.records = << >>

(***************************************************************************)
(* bot.py, rate_limit.py: a block runs out                                 *)
(***************************************************************************)
\* one failed call blocks for one second, or two in a row for two seconds
UnblockConfigs ==
    { BlockingConfig,
      [DefaultConfig EXCEPT !.max_failures = 2, !.failure_cooldown = 2] }

\* two texts of one sender and one of another, all in private chats
UnblockMessages ==
    { TextMessage("m2", 3, "u1", "Al", "Help me"),
      TextMessage("m4", 4, "u1", "Al", "Hello?"),
      TextMessage("m3", 4, "u2", "Bob", "Hi") }

\* the id of the session of msg, which is the key of its block
SessionIdOf(msg) ==
    _resolve_session([sessions |-> EmptyDict, index_file |-> save(EmptyDict)],
                     msg).session.session_id

UnblockKeys == { SessionIdOf(msg) : msg \in UnblockMessages }

\* time.time() moves on by itself: between events, and after the last
\* event for as long as a blocked_until lies ahead
ClockTick ==
    /\ \/ now < Epoch + MaxEventTicks
       \/ \E key \in DOMAIN failure_tracker.cooldowns :
             now < failure_tracker.cooldowns[key]
    /\ now' = now + 1
    /\ prev' = IF call.op = "handle_message" THEN call ELSE prev
    /\ call' = [op |-> "tick"]
    /\ UNCHANGED <<config, memVars, storeVars, ncalls, accepted, streak>>

InitUnblock ==
    /\ InitMemory
    /\ InitDisk
    /\ InitObserved
    /\ call = NoCall
    /\ config \in UnblockConfigs

NextUnblock ==
    \/ ClockTick
    \/ \E msg \in UnblockMessages, llm \in LlmOutcomes : Deliver(msg, llm)

\* the clock is not stopped by anything the bot does
SpecUnblock ==
    InitUnblock /\ [][NextUnblock]_vars /\ WF_vars(ClockTick)

\* the event of the step belongs to the session with id key
EventOf(key) ==
    /\ call'.op = "handle_message"
    /\ call'.session # None
    /\ call'.session[1].session_id = key

\* what the tracker holds for key: the counter and blocked_until
Entry(tracker, key) ==
    <<Get(tracker.failures, key, 0), Get(tracker.cooldowns, key, 0)>>

\* C32: while the tracker blocks a session, an event of that session makes
\* no model call and no step changes the counter or the blocked_until of
\* the session; with the clock advancing, a blocked session is unblocked
\* after a while; and a session that is not blocked becomes blocked only
\* by an event of its own whose model call raised.
C32_BlockRunsOut ==
    /\ [][ \A key \in UnblockKeys :
             /\ Blocked(key) =>
                   /\ Entry(failure_tracker', key) = Entry(failure_tracker, key)
                   /\ EventOf(key) =>
                         /\ CountEffects(call', "client.send") = 0
                         /\ call'.sent = << >>
             /\ ~Blocked(key) /\ Blocked(key)' =>
                   /\ EventOf(key)
                   /\ CountEffects(call', "client.raised") = 1 ]_vars
    /\ \A key \in UnblockKeys : Blocked(key) ~> ~Blocked(key)

\* an event met the block of its session, and the clock has since reached
\* the blocked_until the tracker still holds: the session is open again
C32_Witness ==
    /\ call.op = "tick"
    /\ prev.op = "handle_message"
    /\ prev.outcome = "blocked"
    /\ LET key == prev.session[1].session_id
       IN  /\ key \in DOMAIN failure_tracker.cooldowns
           /\ now = failure_tracker.cooldowns[key]
           /\ Get(failure_tracker.failures, key, 0) >= config.max_failures
           /\ ~Blocked(key)

(***************************************************************************)
(* rate_limit.py: what the FailureTracker holds                            *)
(***************************************************************************)
\* every counter is a natural number, and a key has a blocked_until only
\* with a counter that has reached max_failures
TrackerInv ==
    /\ \A key \in DOMAIN failure_tracker.failures :
          failure_tracker.failures[key] \in Nat
    /\ \A key \in DOMAIN failure_tracker.cooldowns :
          Get(failure_tracker.failures, key, 0) >= config.max_failures

\* the step is a call of op with key
Calls(op, key) ==
    /\ call'.op = op
    /\ call'.key = key

\* the step leaves what the tracker holds for key as it is
Untouched(key) ==
    /\ Entry(failure_tracker', key) = Entry(failure_tracker, key)
    /\ key \in DOMAIN failure_tracker'.failures
          <=> key \in DOMAIN failure_tracker.failures
    /\ key \in DOMAIN failure_tracker'.cooldowns
          <=> key \in DOMAIN failure_tracker.cooldowns

\* C33: in every reachable state of the FailureTracker every counter is
\* >= 0 and a blocked_until is present only for a key whose counter is
\* >= max_failures; a register_failure(key) that brings the counter to
\* max_failures or above sets blocked_until of key to now +
\* cooldown_seconds, which is never before the blocked_until it replaces,
\* and one that stays below sets none; no call changes the counter or the
\* blocked_until of a key other than its own.
C33_TrackerInvariant ==
    /\ TrackerInv
    /\ [][ /\ TrackerInv'
           /\ \A key \in Keys :
                 /\ Calls("register_failure", key) =>
                       LET n == Get(failure_tracker.failures, key, 0) + 1
                       IN  /\ failure_tracker'.failures[key] = n
                           /\ n >= config.max_failures =>
                                 /\ key \in DOMAIN failure_tracker'.cooldowns
                                 /\ failure_tracker'.cooldowns[key]
                                       = now + config.failure_cooldown
                                 /\ failure_tracker'.cooldowns[key]
                                       >= Get(failure_tracker.cooldowns, key, 0)
                           /\ n < config.max_failures =>
                                 key \notin DOMAIN failure_tracker'.cooldowns
                 /\ ~(\/ Calls("register_failure", key)
                      \/ Calls("register_success", key)) => Untouched(key)
         ]_vars

\* a failure of a key above the threshold, made while its block stood,
\* has set blocked_until to now + cooldown_seconds; the other key, blocked
\* earlier by the failure that reached the threshold, still holds its own
C33_Witness ==
    /\ call.op = "register_failure"
    /\ ~call.expired
    /\ call.at = now
    /\ Get(failure_tracker.failures, call.key, 0) > config.max_failures
    /\ Get(failure_tracker.cooldowns, call.key, 0)
          = now + config.failure_cooldown
    /\ \E other \in Keys \ {call.key} :
          /\ other \in DOMAIN failure_tracker.cooldowns
          /\ failure_tracker.failures[other] = config.max_failures
          /\ failure_tracker.cooldowns[other]
                < failure_tracker.cooldowns[call.key]

====
